---- MODULE Spec2Model ----
(***************************************************************************)
(* Model of the worker / client layer of meshlib-practise-react.           *)
(*                                                                         *)
(*   SpecWorker : one Web Worker (smoothing, fill-holes, self-             *)
(*                intersections or annotations) running its job handlers   *)
(*                on the worker's event loop, with the WASM heap.          *)
(*                                                                         *)
(*   SpecClient : one client object (FillHolesClient,                      *)
(*                SelfIntersectionsClient, SmoothingClient,                *)
(*                SimplificationClient or AnnotationsClient) on the page's *)
(*                event loop, with the workers it creates and terminates.  *)
(*   SpecMC     : MeshChecksPage running its two checks on one fetched     *)
(*                STL buffer.                                              *)
(*                                                                         *)
(* The WASM engine itself is not part of the repository's sources: its     *)
(* result (return code, error string, output size, trap) is an input of    *)
(* the CallEngine action.                                                  *)
(***************************************************************************)
EXTENDS Integers, Sequences, FiniteSets, TLC

\* ------------------------------------------------------------------ bounds
MaxJobs == 2
MaxFailAt == 2
MaxCalls == 2
MaxTris == 2
MaxWorkers == 2
MaxPings == 1
MaxIter == 2
MaxLandmarks == 4
MaxLoop == 5
MaxHoles == 2
MaxFaces == 7
MaxComponents == 3

\* --------------------------------------------------------------- variables
VARIABLES
    wkind,                \* which worker script this is
    jobs,                 \* per job request: handler position and locals
    createModulePromise,  \* worker global (smoothing.worker.ts:60)
    modulePromise,        \* worker global (smoothing.worker.ts:61); 0 = undefined
    wasmModule,           \* worker global (annotations worker :13); 0 = null
    instances,            \* one entry per call of the module factory
    heap,                 \* allocated WASM-heap blocks: <<job, role>> -> bytes
    outbox,               \* messages the worker has posted, in order
    mq,                   \* the worker's microtask queue (job continuations)
    running,              \* job whose synchronous code is on the stack; 0 = none
    shared,               \* <<global, writer job, reader job>> reads of globals
    gwriter,              \* last job that wrote each global; 0 = nobody
    ckind,                \* which client class this is
    cworker,              \* this.worker: index into workers; 0 = null
    workers,              \* every Worker the client created, in order
    calls,                \* per API call: its promise and its locals
    nextId,               \* this.nextId
    pending,              \* keys of this.pending
    mpc,                  \* MeshChecksPage: position of the run and of each check
    mbufs,                \* MeshChecksPage: the ArrayBuffer objects created so far
    mref,                 \* which object each variable of the page refers to
    mrecv,                \* what each check's worker received
    mcheck,               \* holesCheck / intersectionsCheck status
    epc,                  \* one engine request: how far it has come
    ereq,                 \* the request: the caller's options, the message made of them
    emesh,                \* the engine's Mesh Store during the call
    eres                  \* what the engine returned and what the caller's promise got

wvars == <<wkind, jobs, createModulePromise, modulePromise, wasmModule,
           instances, heap, outbox, mq, running, shared, gwriter>>

cvars == <<ckind, cworker, workers, calls, nextId, pending>>

mvars == <<mpc, mbufs, mref, mrecv, mcheck>>

evars == <<epc, ereq, emesh, eres>>

vars == <<wvars, cvars, mvars, evars>>

\* ----------------------------------------------------------------- helpers
JobIds == 1..MaxJobs

WorkerKinds == {"smoothing", "fillHoles", "selfIntersections", "annotations"}

SmoothingFamily == {"smoothing", "fillHoles", "selfIntersections"}

OpsOf(kind) ==
    CASE kind = "smoothing" -> {"smooth"}
      [] kind = "fillHoles" -> {"fill_holes"}
      [] kind = "selfIntersections" -> {"detect", "repair"}
      [] kind = "annotations" ->
            {"select_patch", "create_landmark", "patch_from_landmarks"}

AnnotationOps == {"select_patch", "create_landmark", "patch_from_landmarks"}

\* The _malloc calls a handler makes before it enters its try block, in order.
PatchSlots ==
    <<"outFaceIndicesPtr", "outNumFacesPtr", "outContourPtsPtr",
      "outNumContourPtsPtr", "outContourSizesPtr", "outNumContoursPtr",
      "outErrorPtr">>

SetupRoles(op) ==
    CASE op = "smooth" ->
            <<"inPtr", "outPtrPtr", "outSizePtr", "outFacesPtr",
              "outVerticesPtr", "errPtrPtr">>
      [] op = "fill_holes" ->
            <<"inPtr", "outPtrPtr", "outSizePtr", "errPtrPtr">>
      [] op = "detect" ->
            <<"inPtr", "outCountPtr", "outSegmentsDataPtr",
              "outSegmentsSizePtr", "errPtrPtr">>
      [] op = "repair" ->
            <<"inPtr", "outPtrPtr", "outSizePtr", "outRemovedFacesPtr",
              "errPtrPtr">>
      [] op = "select_patch" -> <<"inPtr">> \o PatchSlots
      [] op = "create_landmark" ->
            <<"inPtr", "outXPtr", "outYPtr", "outZPtr", "outErrorPtr">>
      [] op = "patch_from_landmarks" ->
            <<"inPtr", "faceIdxPtr", "posPtr">> \o PatchSlots

\* Buffers the engine allocates for the caller on success (n = element count).
OutRoles(op, n) ==
    CASE op \in {"smooth", "fill_holes", "repair"} -> {"outPtr"}
      [] op = "detect" -> IF n > 0 THEN {"segPtr"} ELSE {}
      [] op \in {"select_patch", "patch_from_landmarks"} ->
            IF n > 0 THEN {"faceIndicesPtr", "contourPtsPtr", "contourSizesPtr"}
            ELSE {}
      [] op = "create_landmark" -> {}

\* Byte strings.  A job's input bytes are its own; Garbage is what a read of
\* unallocated or freed heap memory yields.
Input(j) == <<j>>
Garbage == <<99>>
EngineOut(bytes) == <<bytes[1] + 10>>

\* Text the JS side produces itself: String(error?.stack || error) and
\* err.message of a thrown RuntimeError / RangeError, and the annotations
\* worker's default message.
StackText == <<83>>
DefaultErr == <<70>>

\* The C string the engine leaves behind *errPtrPtr.
CString(err) == IF err = "text" THEN <<69, 0>> ELSE <<0>>

\* The outcomes of one engine call.
EngineResults(op) ==
    {[thrown |-> TRUE, rc |-> 0, err |-> "null", n |-> 0]}
    \cup {[thrown |-> FALSE, rc |-> 0, err |-> "null", n |-> k] :
            k \in IF op \in {"detect", "select_patch", "patch_from_landmarks"}
                  THEN {0, 1} ELSE {1}}
    \cup {[thrown |-> FALSE, rc |-> 1, err |-> e, n |-> 0] :
            e \in {"null", "empty", "text"}}

\* ------------------------------------------------------------------- heap
EmptyHeap == [b \in {} |-> Garbage]
Blocks(j, roles) == {<<j, r>> : r \in roles}
Range(s) == {s[i] : i \in DOMAIN s}
Prefix(s, k) == SubSeq(s, 1, k)

Malloc(h, blks) == [b \in DOMAIN h \cup blks |-> IF b \in DOMAIN h THEN h[b] ELSE Garbage]
HeapFree(h, blks) == [b \in DOMAIN h \ blks |-> h[b]]
HeapRead(h, b) == IF b \in DOMAIN h THEN h[b] ELSE Garbage
HeapSet(h, b, d) == [x \in DOMAIN h |-> IF x = b THEN d ELSE h[x]]


\* --------------------------------------------------------------- messages
NoMsg == [id |-> 0, kind |-> "none", ok |-> FALSE, rc |-> 0, error |-> <<>>,
          hasPayload |-> FALSE, bufs |-> <<>>]

\* postStatus(id, stage)
postStatus(j) == [NoMsg EXCEPT !.id = j, !.kind = "status"]

\* { id, ok: true, output, ... } / { id, type: 'result', result }
FinalOk(j, bufs) ==
    [NoMsg EXCEPT !.id = j, !.kind = "final", !.ok = TRUE, !.hasPayload = TRUE,
                  !.bufs = bufs]

\* { id, ok: false, rc, error } / { id, type: 'error', error }
FinalFail(j, rc, error) ==
    [NoMsg EXCEPT !.id = j, !.kind = "final", !.rc = rc, !.error = error]

\* The catch block of a handler: one failure response with the error's text.
CatchSwallows(j, text) == <<>>
CatchReply(j, text) == <<FinalFail(j, -1, text)>>

\* --------------------------------------------------------- handler pieces
RECURSIVE UpToNul(_)
UpToNul(s) ==
    IF s = <<>> \/ Head(s) = 0 THEN <<>> ELSE <<Head(s)>> \o UpToNul(Tail(s))

\* readCString(Module, ptr): "" for a null pointer, else the bytes up to NUL.
readCString(h, j, errp) ==
    IF errp = "null" THEN <<>> ELSE UpToNul(HeapRead(h, <<j, "errPtr">>))

\* The annotations handlers' error text: a default unless the engine gave one.
AnnotationErrMsg(h, j, errp) ==
    IF errp = "null" THEN DefaultErr ELSE UpToNul(HeapRead(h, <<j, "errPtr">>))

\* Where the handler suspends: the module load, and in the annotations worker
\* the listener's `await handleX(...)` before it posts the result.
AwaitPointsYielding(op) ==
    IF op \in AnnotationOps THEN {"load", "setup", "returned"} ELSE {"load", "setup"}
AwaitPoints(op) == IF op \in AnnotationOps THEN {"load", "returned"} ELSE {"load"}

\* Module.HEAPU8.set(inputBytes, inPtr)
CopyInputSkipped(h, j) == h
CopyInput(h, j) == HeapSet(h, <<j, "inPtr">>, Input(j))

\* Position of the setup step that throws (0: none): a _malloc that aborts,
\* or posView.set(positionsArr) on positions longer than numLandmarks * 3,
\* which runs after the third _malloc of handlePatchFromLandmarks.
ThrowAt(op, failAt, fits) ==
    LET rangeAt == IF op = "patch_from_landmarks" /\ ~fits THEN 4 ELSE 0
    IN  IF failAt = 0 THEN rangeAt
        ELSE IF rangeAt = 0 \/ failAt < rangeAt THEN failAt ELSE rangeAt

\* The heap after the setup code that ran before position p threw (p = 0: all).
SetupHeap(h, j, op, p) ==
    LET done == IF p = 0 THEN SetupRoles(op) ELSE Prefix(SetupRoles(op), p - 1)
        h1 == Malloc(h, Blocks(j, Range(done)))
    IN  IF done = <<>> THEN h1 ELSE CopyInput(h1, j)

\* The finally block: every setup buffer is freed.
Finally(h, j, op) == HeapFree(h, Blocks(j, Range(SetupRoles(op))))

\* What the engine leaves on the heap.
EngineHeap(h, j, op, r, engIn) ==
    LET outs == IF r.rc = 0 THEN Blocks(j, OutRoles(op, r.n)) ELSE {}
        h1 == [b \in DOMAIN h \cup outs |->
                 IF b \in outs THEN EngineOut(engIn) ELSE h[b]]
    IN  IF r.err = "null" THEN h1
        ELSE [b \in DOMAIN h1 \cup {<<j, "errPtr">>} |->
                 IF b = <<j, "errPtr">> THEN CString(r.err) ELSE h1[b]]

\* An engine buffer is copied into a fresh JS buffer, then freed.
FreeThenCopy(h, b) ==
    [heap |-> HeapFree(h, {b}),
     buf |-> [backing |-> "js", data |-> HeapRead(HeapFree(h, {b}), b)]]
CopyThenFree(h, b) ==
    [heap |-> HeapFree(h, {b}),
     buf |-> [backing |-> "js", data |-> HeapRead(h, b)]]

EmptyBuf == [backing |-> "js", data |-> <<>>]

\* The engine buffers a success path copies out, in the order it reads them.
OutRoleSeq(op, n) ==
    CASE op \in {"smooth", "fill_holes", "repair"} -> <<"outPtr">>
      [] op = "detect" -> <<"segPtr">>
      [] op \in {"select_patch", "patch_from_landmarks"} ->
            <<"faceIndicesPtr", "contourPtsPtr", "contourSizesPtr">>
      [] op = "create_landmark" -> <<>>

RECURSIVE CopyOutputs(_, _, _, _)
CopyOutputs(h, j, roles, n) ==
    IF roles = <<>> THEN [heap |-> h, bufs |-> <<>>]
    ELSE LET one == IF n > 0 THEN CopyThenFree(h, <<j, Head(roles)>>)
                    ELSE [heap |-> h, buf |-> EmptyBuf]
             rest == CopyOutputs(one.heap, j, Tail(roles), n)
         IN  [heap |-> rest.heap, bufs |-> <<one.buf>> \o rest.bufs]

\* The code after the engine call returned r: the heap it leaves and the
\* messages it posts (the last one is the final response).
AfterCall(h, j, op, r) ==
    IF r.rc # 0
    THEN LET text == IF op \in AnnotationOps THEN AnnotationErrMsg(h, j, r.err)
                     ELSE readCString(h, j, r.err)
             h1 == IF r.err # "null" THEN HeapFree(h, {<<j, "errPtr">>}) ELSE h
         IN  [heap |-> Finally(h1, j, op),
              msgs |-> <<FinalFail(j, r.rc, text)>>]
    ELSE LET c == CopyOutputs(h, j, OutRoleSeq(op, r.n), r.n)
         IN  [heap |-> Finally(c.heap, j, op),
              msgs |-> (IF op \in AnnotationOps THEN <<>> ELSE <<postStatus(j)>>)
                       \o <<FinalOk(j, c.bufs)>>]


\* ------------------------------------------------------- the worker's state
NoRes == [thrown |-> FALSE, rc |-> 0, err |-> "null", n |-> 0]

IdleJob ==
    [pc |-> "idle", op |-> "none", fits |-> TRUE, mod |-> 0, gm |-> FALSE,
     timer |-> FALSE, rej |-> FALSE, res |-> NoRes, engIn |-> <<>>,
     pend |-> <<>>]

\* A handler that has returned: its locals are gone.  What remains of the job
\* is a getModule() continuation that may still be suspended on the import.
Returned(job) == [IdleJob EXCEPT !.pc = "done", !.gm = job.gm]

Globals == {"createModulePromise", "modulePromise", "wasmModule"}

\* The variables of a client object and of the page when neither exists.
NoClient ==
    /\ ckind = "none"
    /\ cworker = 0
    /\ workers = <<>>
    /\ calls = <<>>
    /\ nextId = 0
    /\ pending = {}

NoPage ==
    /\ mpc = "none"
    /\ mbufs = <<>>
    /\ mref = <<>>
    /\ mrecv = <<>>
    /\ mcheck = <<>>

\* The variables of an engine request when none is followed.
NoEngine ==
    /\ epc = "none"
    /\ ereq = <<>>
    /\ emesh = <<>>
    /\ eres = <<>>

InitWorker ==
    /\ NoClient
    /\ NoPage
    /\ NoEngine
    /\ wkind \in WorkerKinds
    /\ jobs = [j \in JobIds |-> IdleJob]
    /\ createModulePromise = "unset"
    /\ modulePromise = 0
    /\ wasmModule = 0
    /\ instances = <<>>
    /\ heap = EmptyHeap
    /\ outbox = <<>>
    /\ mq = <<>>
    /\ running = 0
    /\ shared = {}
    /\ gwriter = [g \in Globals |-> 0]

\* Job j reads global g: a read of another job's write is recorded.
ReadsOf(gs, j) == {<<g, gwriter[g], j>> : g \in {x \in gs : gwriter[x] \notin {0, j}}}

RECURSIVE Ascending(_)
Ascending(S) ==
    IF S = {} THEN <<>>
    ELSE LET m == CHOOSE x \in S : \A y \in S : x <= y
         IN  <<m>> \o Ascending(S \ {m})

\* A task starts only when no script runs and the microtask queue is drained.
TaskBoundary == running = 0 /\ mq = <<>>

\* The message listener on a job request, up to the handler's first await:
\* handleJobMessage / handleDetect / handleRepair up to
\* `await withTimeout(getModule(), 30_000, ...)`, getModule and getCreateModule;
\* in the annotations worker the listener, handleX and ensureModule.
\* Requests are numbered in the order they arrive.
Receive(j, op, fits) ==
    /\ TaskBoundary
    /\ jobs[j].pc = "idle"
    /\ \A k \in JobIds : k < j => jobs[k].pc # "idle"
    /\ op \in OpsOf(wkind)
    /\ op # "patch_from_landmarks" => fits
    /\ LET base == [IdleJob EXCEPT !.op = op, !.fits = fits]
       IN  IF wkind \in SmoothingFamily
           THEN /\ outbox' = outbox \o <<postStatus(j), postStatus(j)>>
                /\ wasmModule' = wasmModule
                /\ IF modulePromise # 0
                   THEN /\ shared' = shared \cup ReadsOf({"modulePromise"}, j)
                        /\ UNCHANGED <<createModulePromise, gwriter>>
                        /\ IF instances[modulePromise] = "pending"
                           THEN /\ jobs' = [jobs EXCEPT ![j] =
                                     [base EXCEPT !.pc = "awaitModule",
                                                  !.mod = modulePromise,
                                                  !.timer = TRUE]]
                                /\ mq' = mq
                           ELSE /\ jobs' = [jobs EXCEPT ![j] =
                                     [base EXCEPT !.pc = "ready",
                                                  !.mod = modulePromise,
                                                  !.rej = (instances[modulePromise] = "rejected")]]
                                /\ mq' = Append(mq, j)
                   ELSE /\ shared' = shared \cup
                                ReadsOf({"modulePromise", "createModulePromise"}, j)
                        /\ IF createModulePromise = "unset"
                           THEN /\ createModulePromise' = "pending"
                                /\ gwriter' = [gwriter EXCEPT !["createModulePromise"] = j]
                           ELSE UNCHANGED <<createModulePromise, gwriter>>
                        /\ IF createModulePromise = "rejected"
                           THEN /\ jobs' = [jobs EXCEPT ![j] =
                                     [base EXCEPT !.pc = "ready", !.rej = TRUE]]
                                /\ mq' = Append(mq, j)
                           ELSE /\ jobs' = [jobs EXCEPT ![j] =
                                     [base EXCEPT !.pc = "awaitCreate",
                                                  !.gm = TRUE, !.timer = TRUE]]
                                /\ mq' = mq
           ELSE /\ outbox' = Append(outbox, postStatus(j))
                /\ shared' = shared \cup ReadsOf({"wasmModule"}, j)
                /\ UNCHANGED <<createModulePromise, gwriter, wasmModule>>
                /\ IF wasmModule # 0
                   THEN /\ jobs' = [jobs EXCEPT ![j] =
                             [base EXCEPT !.pc = "ready", !.mod = wasmModule]]
                        /\ mq' = Append(mq, j)
                   ELSE /\ jobs' = [jobs EXCEPT ![j] =
                             [base EXCEPT !.pc = "awaitImport"]]
                        /\ mq' = mq
    /\ UNCHANGED <<cvars, mvars, evars, wkind, modulePromise, instances, heap, running>>

\* The dynamic import behind createModulePromise settles.  Every getModule()
\* call suspended at `await getCreateModule()` resumes: it calls createModule
\* and assigns modulePromise (a job whose load timer already fired included).
ImportSettles(ok) ==
    /\ TaskBoundary
    /\ wkind \in SmoothingFamily
    /\ createModulePromise = "pending"
    /\ LET waiting == {j \in JobIds : jobs[j].gm}
           idx(j) == Len(instances) + Cardinality({k \in waiting : k <= j})
           last == CHOOSE x \in waiting : \A y \in waiting : y <= x
       IN  IF ok
           THEN /\ createModulePromise' = "resolved"
                /\ instances' = instances \o
                        [i \in 1..Cardinality(waiting) |-> "pending"]
                /\ modulePromise' = Len(instances) + Cardinality(waiting)
                /\ gwriter' = [gwriter EXCEPT !["modulePromise"] = last]
                /\ jobs' = [j \in JobIds |->
                     IF jobs[j].gm
                     THEN [jobs[j] EXCEPT !.gm = FALSE, !.mod = idx(j),
                             !.pc = IF @ = "awaitCreate" THEN "awaitModule" ELSE @]
                     ELSE jobs[j]]
                /\ mq' = mq
           ELSE /\ createModulePromise' = "rejected"
                /\ UNCHANGED <<instances, modulePromise, gwriter>>
                /\ jobs' = [j \in JobIds |->
                     IF jobs[j].gm
                     THEN IF jobs[j].pc = "awaitCreate"
                          THEN [jobs[j] EXCEPT !.gm = FALSE, !.pc = "ready",
                                               !.rej = TRUE, !.timer = FALSE]
                          ELSE [jobs[j] EXCEPT !.gm = FALSE]
                     ELSE jobs[j]]
                /\ mq' = Ascending({j \in JobIds : jobs[j].pc = "awaitCreate"})
    /\ UNCHANGED <<cvars, mvars, evars, wkind, wasmModule, heap, outbox, running, shared>>

\* The annotations worker: a job's own `await import(...)` in ensureModule
\* settles; on success the job calls the factory and awaits the instance.
JobImportSettles(j, ok) ==
    /\ TaskBoundary
    /\ wkind = "annotations"
    /\ jobs[j].pc = "awaitImport"
    /\ IF ok
       THEN /\ instances' = Append(instances, "pending")
            /\ jobs' = [jobs EXCEPT ![j].pc = "awaitFactory",
                                    ![j].mod = Len(instances) + 1]
            /\ mq' = mq
       ELSE /\ instances' = instances
            /\ jobs' = [jobs EXCEPT ![j].pc = "ready", ![j].rej = TRUE]
            /\ mq' = Append(mq, j)
    /\ UNCHANGED <<cvars, mvars, evars, wkind, createModulePromise, modulePromise, wasmModule, heap,
                   outbox, running, shared, gwriter>>

\* A module instantiation (createModule(...) / factory()) settles; the jobs
\* awaiting it resume in the order they started to wait.
InstanceSettles(m, ok) ==
    /\ TaskBoundary
    /\ m \in 1..Len(instances)
    /\ instances[m] = "pending"
    /\ instances' = [instances EXCEPT ![m] = IF ok THEN "resolved" ELSE "rejected"]
    /\ LET waiters == {j \in JobIds :
                          jobs[j].pc \in {"awaitModule", "awaitFactory"} /\ jobs[j].mod = m}
       IN  /\ jobs' = [j \in JobIds |->
                 IF j \in waiters
                 THEN [jobs[j] EXCEPT !.pc = "ready", !.rej = ~ok, !.timer = FALSE]
                 ELSE jobs[j]]
           /\ mq' = Ascending(waiters)
           /\ IF wkind = "annotations" /\ ok /\ waiters # {}
              THEN /\ wasmModule' = m
                   /\ gwriter' = [gwriter EXCEPT !["wasmModule"] =
                                     CHOOSE j \in waiters : TRUE]
              ELSE UNCHANGED <<wasmModule, gwriter>>
    /\ UNCHANGED <<cvars, mvars, evars, wkind, createModulePromise, modulePromise, heap, outbox,
                   running, shared>>

\* withTimeout's timer fires while the job still waits for the module: the
\* job's catch block posts the failure.  getModule()'s own continuation stays
\* suspended.
LoadTimeout(j) ==
    /\ TaskBoundary
    /\ jobs[j].timer
    /\ jobs' = [jobs EXCEPT ![j] = Returned(@)]
    /\ outbox' = outbox \o CatchReply(j, StackText)
    /\ UNCHANGED <<cvars, mvars, evars, wkind, createModulePromise, modulePromise, wasmModule,
                   instances, heap, mq, running, shared, gwriter>>

\* The handler resumes after the module load: on a rejected load its catch
\* block answers; otherwise it posts its statuses and runs the setup code
\* (_malloc calls, HEAPU8.set) that precedes the try block.  failAt is the
\* _malloc that aborts (0: none).  Buffers obtained before a throw stay
\* allocated: the finally block is never entered.
StartJob(j, failAt) ==
    /\ running = 0
    /\ mq # <<>>
    /\ Head(mq) = j
    /\ jobs[j].pc = "ready"
    /\ failAt \in 0..Len(SetupRoles(jobs[j].op))
    /\ LET op == jobs[j].op
           p == ThrowAt(op, failAt, jobs[j].fits)
           st == IF op \in AnnotationOps THEN <<>>
                 ELSE <<postStatus(j), postStatus(j)>>
           failed == jobs[j].rej \/ p # 0
       IN  /\ jobs[j].rej => failAt = 0
           /\ heap' = IF jobs[j].rej THEN heap ELSE SetupHeap(heap, j, op, p)
           /\ IF failed
              THEN IF "returned" \in AwaitPoints(op)
                   THEN /\ jobs' = [jobs EXCEPT ![j].pc = "returned",
                                        ![j].pend = CatchReply(j, StackText)]
                        /\ mq' = Append(Tail(mq), j)
                        /\ outbox' = outbox
                        /\ running' = 0
                   ELSE /\ jobs' = [jobs EXCEPT ![j] = Returned(@)]
                        /\ mq' = Tail(mq)
                        /\ outbox' = outbox
                              \o (IF jobs[j].rej THEN <<>> ELSE st)
                              \o CatchReply(j, StackText)
                        /\ running' = 0
              ELSE /\ jobs' = [jobs EXCEPT ![j].pc = "setup"]
                   /\ outbox' = outbox \o st
                   /\ IF "setup" \in AwaitPoints(op)
                      THEN mq' = Append(Tail(mq), j) /\ running' = 0
                      ELSE mq' = Tail(mq) /\ running' = j
    /\ UNCHANGED <<cvars, mvars, evars, wkind, createModulePromise, modulePromise, wasmModule,
                   instances, shared, gwriter>>

\* The engine call, with result r.  A trap inside the call is thrown into the
\* try block: the finally block frees the setup buffers and the catch answers.
CallEngine(j, r) ==
    /\ jobs[j].pc = "setup"
    /\ \/ running = j
       \/ running = 0 /\ mq # <<>> /\ Head(mq) = j
    /\ r \in EngineResults(jobs[j].op)
    /\ LET op == jobs[j].op
           engIn == HeapRead(heap, <<j, "inPtr">>)
           st == IF op \in AnnotationOps THEN <<>> ELSE <<postStatus(j)>>
           q == IF running = j THEN mq ELSE Tail(mq)
       IN  IF r.thrown
           THEN /\ heap' = Finally(heap, j, op)
                /\ running' = 0
                /\ IF "returned" \in AwaitPoints(op)
                   THEN /\ jobs' = [jobs EXCEPT ![j].pc = "returned",
                                        ![j].engIn = engIn, ![j].res = r,
                                        ![j].pend = CatchReply(j, StackText)]
                        /\ mq' = Append(q, j)
                        /\ outbox' = outbox \o st
                   ELSE /\ jobs' = [jobs EXCEPT ![j] = Returned(@)]
                        /\ mq' = q
                        /\ outbox' = outbox \o st \o CatchReply(j, StackText)
           ELSE /\ heap' = EngineHeap(heap, j, op, r, engIn)
                /\ jobs' = [jobs EXCEPT ![j].pc = "called", ![j].engIn = engIn,
                                        ![j].res = r]
                /\ running' = j
                /\ mq' = q
                /\ outbox' = outbox \o st
    /\ UNCHANGED <<cvars, mvars, evars, wkind, createModulePromise, modulePromise, wasmModule,
                   instances, shared, gwriter>>

\* The code after the engine call: error text or output copies, frees, the
\* finally block, and the final response (the annotations handlers return or
\* throw to the listener, which posts after its await).
Finish(j) ==
    /\ jobs[j].pc = "called"
    /\ running = j
    /\ LET op == jobs[j].op
           a == AfterCall(heap, j, op, jobs[j].res)
       IN  /\ heap' = a.heap
           /\ running' = 0
           /\ IF "returned" \in AwaitPoints(op)
              THEN /\ jobs' = [jobs EXCEPT ![j].pc = "returned", ![j].pend = a.msgs]
                   /\ mq' = Append(mq, j)
                   /\ outbox' = outbox
              ELSE /\ jobs' = [jobs EXCEPT ![j] = Returned(@)]
                   /\ mq' = mq
                   /\ outbox' = outbox \o a.msgs
    /\ UNCHANGED <<cvars, mvars, evars, wkind, createModulePromise, modulePromise, wasmModule,
                   instances, shared, gwriter>>

\* The annotations listener resumes after `await handleX(...)` and posts the
\* result, or its catch block posts the error.
PostResult(j) ==
    /\ running = 0
    /\ mq # <<>>
    /\ Head(mq) = j
    /\ jobs[j].pc = "returned"
    /\ jobs' = [jobs EXCEPT ![j] = Returned(@)]
    /\ outbox' = outbox \o jobs[j].pend
    /\ mq' = Tail(mq)
    /\ UNCHANGED <<cvars, mvars, evars, wkind, createModulePromise, modulePromise, wasmModule,
                   instances, heap, running, shared, gwriter>>

NextWorker ==
    \/ \E j \in JobIds, fits \in BOOLEAN : \E op \in OpsOf(wkind) : Receive(j, op, fits)
    \/ \E ok \in BOOLEAN : ImportSettles(ok)
    \/ \E j \in JobIds, ok \in BOOLEAN : JobImportSettles(j, ok)
    \/ \E m \in 1..Len(instances), ok \in BOOLEAN : InstanceSettles(m, ok)
    \/ \E j \in JobIds : LoadTimeout(j)
    \/ \E j \in JobIds : \E failAt \in 0..MaxFailAt : StartJob(j, failAt)
    \/ \E j \in JobIds : \E r \in EngineResults(jobs[j].op) : CallEngine(j, r)
    \/ \E j \in JobIds : Finish(j)
    \/ \E j \in JobIds : PostResult(j)

SpecWorker == InitWorker /\ [][NextWorker]_vars

\* ------------------------------------------------- properties of a worker
FinalsOf(j) == {i \in DOMAIN outbox : outbox[i].id = j /\ outbox[i].kind = "final"}
StatusesOf(j) == {i \in DOMAIN outbox : outbox[i].id = j /\ outbox[i].kind = "status"}
InSection(j) == jobs[j].pc \in {"setup", "called", "returned"}
HeldBy(j) == {b \in DOMAIN heap : b[1] = j}

\* C1: a job whose handler has finished has exactly one final response with
\* its id in the worker's output, a job still in its handler has none, and
\* every status message with that id precedes the final response.
C1_ExactlyOneFinal ==
    \A j \in JobIds :
        /\ Cardinality(FinalsOf(j)) <= 1
        /\ jobs[j].pc = "done" => Cardinality(FinalsOf(j)) = 1
        /\ jobs[j].pc # "done" => FinalsOf(j) = {}
        /\ \A f \in FinalsOf(j) : \A i \in StatusesOf(j) : i < f

\* Two finished jobs, one answered with success and one with a failure, each
\* after status messages.
C1_Witness ==
    \E j \in JobIds, k \in JobIds :
        /\ jobs[j].pc = "done" /\ jobs[k].pc = "done"
        /\ StatusesOf(j) # {} /\ StatusesOf(k) # {}
        /\ \E f \in FinalsOf(j) : outbox[f].ok
        /\ \E f \in FinalsOf(k) : ~outbox[f].ok

\* C5: at most one job is between its first allocation and its final
\* response, and while a job is there no step changes any other job.
C5_NoInterleaving ==
    [][\A j \in JobIds :
          InSection(j) =>
              /\ \A k \in JobIds \ {j} : ~InSection(k) /\ jobs'[k] = jobs[k]
              /\ \A i \in DOMAIN outbox' \ DOMAIN outbox : outbox'[i].id = j
              /\ \A k \in JobIds \ {j} : HeldBy(k)' = HeldBy(k)]_vars

\* A job is inside the engine call while another job, which arrived before the
\* module had loaded, is queued behind it ready to run.
C5_Witness ==
    \E j \in JobIds, k \in JobIds :
        /\ j # k
        /\ jobs[j].pc = "called"
        /\ jobs[k].pc = "ready"
        /\ jobs[j].mod = jobs[k].mod
        /\ \E i \in DOMAIN mq : mq[i] = k

\* C6 as stated: no job ever reads a worker global another job wrote.
C6_NoSharedGlobal == shared = {}

\* C6, amended: the only worker state one job writes and another reads is the
\* cache of the lazily created WASM module (createModulePromise,
\* modulePromise, wasmModule); the bytes the engine works from in a job are that
\* job's own input bytes.
C6_OnlyModuleCacheShared ==
    /\ \A s \in shared :
          /\ s[1] \in {"createModulePromise", "modulePromise", "wasmModule"}
          /\ s[1] = "wasmModule" <=> wkind = "annotations"
          /\ s[2] < s[3]
    /\ \A j \in JobIds :
          /\ jobs[j].engIn \in {<<>>, Input(j)}
          /\ jobs[j].pc = "called" => jobs[j].engIn = Input(j)

\* The second job is inside the engine on the module the first job created,
\* after the first job's buffers were on the same heap.
C6_Witness ==
    \E j \in JobIds :
        /\ jobs[j].pc = "called"
        /\ jobs[j].engIn = Input(j)
        /\ \E s \in shared : s[3] = j
        /\ \E k \in JobIds :
              k # j /\ jobs[k].pc = "done" /\ \E f \in FinalsOf(k) : outbox[f].ok

\* C7: when a job's handler has finished, no WASM-heap buffer obtained for
\* that job is still allocated.
C7_AllBuffersFreed ==
    \A j \in JobIds : jobs[j].pc = "done" => HeldBy(j) = {}

\* C8: every buffer in a success response is a JS-owned copy holding what the
\* engine produced from the job's input (or an empty buffer), never bytes read
\* after the engine buffer was freed.
C8_ResponseHoldsCopies ==
    \A i \in DOMAIN outbox :
        outbox[i].kind = "final" /\ outbox[i].ok =>
            \A b \in DOMAIN outbox[i].bufs :
                /\ outbox[i].bufs[b].backing = "js"
                /\ outbox[i].bufs[b].data \in
                      {<<>>, EngineOut(Input(outbox[i].id))}
                /\ outbox[i].bufs[b].data = <<>> =>
                      \A c \in DOMAIN outbox[i].bufs : outbox[i].bufs[c] = EmptyBuf

\* A success response carrying a copied engine buffer, with the engine buffer
\* and the setup buffers no longer on the heap.
C8_Witness ==
    \E i \in DOMAIN outbox :
        /\ outbox[i].kind = "final" /\ outbox[i].ok
        /\ outbox[i].bufs # <<>>
        /\ outbox[i].bufs[1].data = EngineOut(Input(outbox[i].id))
        /\ HeldBy(outbox[i].id) = {}

\* C9: every final response has its success flag; a failure carries a
\* non-empty error string and a success carries the payload.
C9_FinalResponseShape ==
    \A i \in DOMAIN outbox :
        outbox[i].kind = "final" =>
            /\ outbox[i].ok \in BOOLEAN
            /\ ~outbox[i].ok => outbox[i].error # <<>>
            /\ outbox[i].ok => outbox[i].hasPayload

\* C28: the module factory is called at most once in a worker, however many
\* jobs arrive before the first instantiation completes, and every job that
\* got a module got that one instance.
C28_ModuleInstantiatedOnce ==
    /\ Len(instances) <= 1
    /\ \A j \in JobIds : jobs[j].mod # 0 => jobs[j].mod = 1

\* C31: after a smoothing or simplification job has failed (engine error,
\* module load failure or load timeout), a later job can still succeed on the
\* same worker: a job that arrives after an earlier job's failed response is
\* never failed on arrival by the outcome of the earlier job's load.
C31_LaterJobNotFailedOnArrival ==
    [][wkind = "smoothing" =>
          \A j \in JobIds :
              (/\ jobs[j].pc = "idle" /\ jobs'[j].pc # "idle"
               /\ \E i \in DOMAIN outbox :
                      outbox[i].kind = "final" /\ ~outbox[i].ok /\ outbox[i].id < j)
              => ~jobs'[j].rej]_vars

\* ------------------------------------------------------------- the clients
ClientKinds ==
    {"fillHoles", "selfIntersections", "smoothing", "simplification", "annotations"}

\* FillHolesClient and SelfIntersectionsClient attach listeners per call and
\* replace the worker on a failure; SmoothingClient and SimplificationClient
\* keep a pending map and one listener per worker.
PerCallClients == {"fillHoles", "selfIntersections"}
PendingMapClients == {"smoothing", "simplification"}

CallIds == 1..MaxCalls

NoWorkerScript ==
    /\ wkind = "none"
    /\ jobs = <<>>
    /\ createModulePromise = "unset"
    /\ modulePromise = 0
    /\ wasmModule = 0
    /\ instances = <<>>
    /\ heap = EmptyHeap
    /\ outbox = <<>>
    /\ mq = <<>>
    /\ running = 0
    /\ shared = {}
    /\ gwriter = <<>>

\* An API call: its promise (st, by, reason), its locals, and late, the
\* number of times its onStatus callback ran after the promise had settled.
IdleCall ==
    [st |-> "idle", id |-> 0, w |-> 0, rpw |-> 0, timeoutMs |-> 0,
     timer |-> FALSE, by |-> "none", reason |-> <<>>, posted |-> "none",
     late |-> 0]

\* A Worker object: the requests posted to it that its script has not taken
\* yet (inq), the job its script is executing (cur), the messages it posted
\* that the page has not dispatched yet (chan), and the readiness promise the
\* client made for it (rp); disposed marks the worker dispose() terminated.
NewWorkerReady(rp, inq) ==
    [alive |-> TRUE, inq |-> inq, cur |-> 0, chan |-> <<>>, rp |-> "resolved",
     disposed |-> FALSE]
NewWorker(rp, inq) ==
    [alive |-> TRUE, inq |-> inq, cur |-> 0, chan |-> <<>>, rp |-> rp,
     disposed |-> FALSE]

Ping(id) == [id |-> id, ping |-> TRUE]
JobRequest(id) == [id |-> id, ping |-> FALSE]
Ready(id) == [NoMsg EXCEPT !.id = id, !.kind = "ready"]

\* worker.terminate(): the script stops and the messages it posted that were
\* not dispatched yet are discarded.
Terminate(ws, w) ==
    [ws EXCEPT ![w] = [@ EXCEPT !.alive = FALSE, !.inq = <<>>, !.cur = 0,
                                !.chan = <<>>]]

\* resetWorker() of the per-call clients: terminate, create, waitForReady.
resetWorkerKeepsOld(ws, w) == Append(ws, NewWorker("pending", <<Ping(0)>>))
resetWorker(ws, w) == Append(Terminate(ws, w), NewWorker("pending", <<Ping(0)>>))

\* Error messages.  The worker's error text, and what the clients build.
WorkerErrText == UpToNul(CString("text"))
FailedMessage(kind, rc, text) ==
    IF kind = "annotations" THEN text ELSE <<70, rc>> \o text
TimedOutMessage(ms) == <<84, ms>>
ResetMessage == <<82>>
NotReadyMessage == <<78>>
WorkerErrorMessage == <<87>>

\* dispose() has been called on the client.
Disposed == \E w \in DOMAIN workers : workers[w].disposed

Includes(msg, text) ==
    \E i \in 1..Len(msg) + 1 :
        i + Len(text) - 1 <= Len(msg) /\ SubSeq(msg, i, i + Len(text) - 1) = text

\* opts.timeoutMs: omitted, 0 or a positive number of milliseconds.
TimeoutOpts ==
    {[given |-> FALSE, ms |-> 0], [given |-> TRUE, ms |-> 0], [given |-> TRUE, ms |-> 5]}

\* opts?.timeoutMs ?? 120_000  /  opts.timeoutMs ?? 0
EffectiveTimeout(kind, opt) ==
    IF opt.given THEN opt.ms
    ELSE IF kind \in PerCallClients THEN 120000 ELSE 0

\* Whether the call arms a timer: `timeoutMs ? setTimeout(...) : undefined`
\* and `if (timeoutMs > 0) timer = setTimeout(...)`.
ArmsTimerNever(kind, timeoutMs) == FALSE
ArmsTimerAlways(kind, timeoutMs) == kind # "annotations"
ArmsTimer(kind, timeoutMs) ==
    CASE kind \in PerCallClients -> timeoutMs # 0
      [] kind \in PendingMapClients -> timeoutMs > 0
      [] OTHER -> FALSE

InitClient ==
    /\ NoWorkerScript
    /\ NoPage
    /\ NoEngine
    /\ ckind \in ClientKinds
    /\ calls = [c \in CallIds |-> IdleCall]
    /\ workers = CASE ckind \in PerCallClients -> <<NewWorker("pending", <<Ping(0)>>)>>
                   [] ckind = "annotations" -> <<NewWorker("pending", <<Ping(1)>>)>>
                   [] OTHER -> <<>>
    /\ cworker = IF ckind \in PendingMapClients THEN 0 ELSE 1
    /\ nextId = IF ckind = "annotations" THEN 2 ELSE 1
    /\ pending = IF ckind = "annotations" THEN {1} ELSE {}

RankSame(c, S) == 0
Rank(c, S) == Cardinality({d \in S : d < c})

\* The calls in S, suspended at `await this.readyPromise`, resume in order:
\* each takes the next id, arms its timer and posts its request to worker cw.
SendAll(cl, S, cw, nid) ==
    [c \in CallIds |->
        IF c \in S
        THEN [cl[c] EXCEPT !.st = "sent", !.id = nid + Rank(c, S), !.w = cw,
                           !.timer = ArmsTimer(ckind, cl[c].timeoutMs)]
        ELSE cl[c]]

Requests(S, nid) == [i \in 1..Cardinality(S) |-> JobRequest(nid + i - 1)]

IdsOf(S, nid) == {nid + i - 1 : i \in 1..Cardinality(S)}

Waiting(w) == {c \in CallIds : calls[c].st = "waitReady" /\ calls[c].rpw = w}

\* fillHoles / detect / repair / smooth / simplify / selectPatch / ... : the
\* call up to the point where its request is posted, or where it suspends on
\* the readiness promise.  The page makes no call on a client it disposed.
Call(c, opt) ==
    /\ calls[c].st = "idle"
    /\ ~Disposed
    /\ \A d \in CallIds : d < c => calls[d].st # "idle"
    /\ opt \in TimeoutOpts
    /\ ckind = "annotations" => ~opt.given
    /\ LET create == ckind \in PendingMapClients /\ cworker = 0
           ws == IF create THEN Append(workers, NewWorker("none", <<>>)) ELSE workers
           cw == IF create THEN Len(workers) + 1 ELSE cworker
           base == [IdleCall EXCEPT !.timeoutMs = EffectiveTimeout(ckind, opt),
                                    !.rpw = cw]
       IN  /\ cworker' = cw
           /\ CASE ws[cw].rp = "pending" ->
                     /\ calls' = [calls EXCEPT ![c] = [base EXCEPT !.st = "waitReady"]]
                     /\ workers' = ws
                     /\ UNCHANGED <<nextId, pending>>
                [] ws[cw].rp = "rejected" ->
                     /\ calls' = [calls EXCEPT ![c] =
                            [base EXCEPT !.st = "rejected", !.by = "ready",
                                         !.reason = NotReadyMessage]]
                     /\ workers' = ws
                     /\ UNCHANGED <<nextId, pending>>
                [] OTHER ->
                     /\ calls' = SendAll([calls EXCEPT ![c] = base], {c}, cw, nextId)
                     /\ workers' = [ws EXCEPT ![cw].inq = Append(@, JobRequest(nextId))]
                     /\ nextId' = nextId + 1
                     /\ pending' = IF ckind \in PerCallClients THEN pending
                                   ELSE pending \cup {nextId}
    /\ UNCHANGED <<ckind, wvars, mvars, evars>>

\* The worker script takes the next request: a ping is answered at once, a
\* job starts and posts a status message.
WorkerTakes(w) ==
    /\ workers[w].alive
    /\ workers[w].cur = 0
    /\ workers[w].inq # <<>>
    /\ LET r == Head(workers[w].inq)
       IN  workers' = [workers EXCEPT ![w] =
              [@ EXCEPT !.inq = Tail(@),
                        !.cur = IF r.ping THEN 0 ELSE r.id,
                        !.chan = Append(@, IF r.ping THEN Ready(r.id)
                                           ELSE postStatus(r.id))]]
    /\ UNCHANGED <<ckind, cworker, calls, nextId, pending, wvars, mvars, evars>>

\* The worker script posts the final response of the job it is executing.
WorkerFinishes(w, ok) ==
    /\ workers[w].alive
    /\ workers[w].cur # 0
    /\ LET id == workers[w].cur
       IN  /\ workers' = [workers EXCEPT ![w] =
                 [@ EXCEPT !.cur = 0,
                           !.chan = Append(@, IF ok THEN FinalOk(id, <<>>)
                                              ELSE FinalFail(id, 1, WorkerErrText))]]
           /\ calls' = [c \in CallIds |->
                 IF calls[c].id = id /\ calls[c].st = "sent"
                 THEN [calls[c] EXCEPT !.posted = IF ok THEN "ok" ELSE "fail"]
                 ELSE calls[c]]
    /\ UNCHANGED <<ckind, cworker, nextId, pending, wvars, mvars, evars>>

\* Settling a call's promise.
Resolved(call) == [call EXCEPT !.st = "resolved", !.timer = FALSE, !.by = "response"]
Rejected(call, by, reason) ==
    [call EXCEPT !.st = "rejected", !.timer = FALSE, !.by = by, !.reason = reason]

\* The call whose per-call listener / pending entry a message with this id
\* belongs to.
CallOfStale(w, id) == {c \in CallIds : calls[c].id = id}
CallOf(w, id) ==
    IF ckind \in PerCallClients
    THEN {c \in CallIds : calls[c].st = "sent" /\ calls[c].id = id /\ calls[c].w = w}
    ELSE {c \in CallIds : calls[c].id = id /\ id \in pending}

\* The page dispatches the next message of worker w to the listeners on it.
\*   per-call clients : waitForReady's onMessage, then each call's onMessage
\*   pending-map clients : handleMessage
\*   annotations client : onMessage
Deliver(w) ==
    /\ workers[w].alive
    /\ workers[w].chan # <<>>
    /\ LET m == Head(workers[w].chan)
           ws == [workers EXCEPT ![w].chan = Tail(@)]
           target == IF m.kind \in {"final", "status"} THEN CallOf(w, m.id) ELSE {}
           handle(cl) ==
               [c \in CallIds |->
                   IF c \notin target THEN cl[c]
                   ELSE IF m.kind = "status"
                   THEN IF cl[c].st = "sent" THEN cl[c]
                        ELSE [cl[c] EXCEPT !.late = @ + 1]
                   ELSE IF m.ok THEN Resolved(cl[c])
                   ELSE Rejected(cl[c], "response",
                                 FailedMessage(ckind, m.rc, m.error))]
       IN  CASE ckind \in PerCallClients ->
                  IF ws[w].rp = "pending"
                  THEN /\ calls' = SendAll(calls, Waiting(w), cworker, nextId)
                       /\ workers' = [ws EXCEPT
                              ![w].rp = "resolved",
                              ![cworker].inq = @ \o Requests(Waiting(w), nextId)]
                       /\ nextId' = nextId + Cardinality(Waiting(w))
                       /\ UNCHANGED <<cworker, pending>>
                  ELSE /\ calls' = handle(calls)
                       /\ IF target # {} /\ m.kind = "final" /\ ~m.ok
                          THEN /\ workers' = resetWorker(ws, cworker)
                               /\ cworker' = Len(ws) + 1
                          ELSE /\ workers' = ws
                               /\ cworker' = cworker
                       /\ UNCHANGED <<nextId, pending>>
             [] ckind \in PendingMapClients ->
                  /\ workers' = ws
                  /\ calls' = handle(calls)
                  /\ pending' = IF m.kind = "final" THEN pending \ {m.id} ELSE pending
                  /\ UNCHANGED <<cworker, nextId>>
             [] OTHER ->
                  IF m.kind = "ready" /\ m.id \in pending
                  THEN /\ calls' = SendAll(calls, Waiting(w), cworker, nextId)
                       /\ workers' = [ws EXCEPT
                              ![w].rp = "resolved",
                              ![cworker].inq = @ \o Requests(Waiting(w), nextId)]
                       /\ nextId' = nextId + Cardinality(Waiting(w))
                       /\ pending' = (pending \ {m.id}) \cup IdsOf(Waiting(w), nextId)
                       /\ cworker' = cworker
                  ELSE /\ calls' = handle(calls)
                       /\ workers' = ws
                       /\ pending' = IF m.kind = "final" THEN pending \ {m.id}
                                     ELSE pending
                       /\ UNCHANGED <<cworker, nextId>>
    /\ UNCHANGED <<ckind, wvars, mvars, evars>>

\* A call's timer fires.  The per-call clients clean up, replace the worker
\* and reject; the pending-map clients delete the pending entry and reject.
Timeout(c) ==
    /\ calls[c].st = "sent"
    /\ calls[c].timer
    /\ calls' = [calls EXCEPT ![c] =
          Rejected(@, "timeout", TimedOutMessage(calls[c].timeoutMs))]
    /\ IF ckind \in PerCallClients
       THEN /\ workers' = resetWorker(workers, cworker)
            /\ cworker' = Len(workers) + 1
            /\ pending' = pending
       ELSE /\ pending' = pending \ {calls[c].id}
            /\ UNCHANGED <<workers, cworker>>
    /\ UNCHANGED <<ckind, nextId, wvars, mvars, evars>>

\* waitForReady's 15 s timer fires before any message of worker w arrived:
\* the readiness promise rejects, and with it every call suspended on it.
\* The timer of a terminated worker whose promise no call awaits rejects a
\* promise nobody can reach any more; that step is left out.
ReadyTimeout(w) ==
    /\ ckind \in PerCallClients
    /\ workers[w].rp = "pending"
    /\ workers[w].alive \/ Waiting(w) # {}
    /\ workers' = [workers EXCEPT ![w].rp = "rejected"]
    /\ calls' = [c \in CallIds |->
          IF c \in Waiting(w) THEN Rejected(calls[c], "ready", NotReadyMessage)
          ELSE calls[c]]
    /\ UNCHANGED <<ckind, cworker, nextId, pending, wvars, mvars, evars>>

\* The loop of resetWorker over the pending map: each entry's timer is
\* cleared and its promise rejected with 'Worker was reset'.
RejectPendingKeepsTimers(cl, pend) ==
    [c \in CallIds |->
        IF cl[c].st = "sent" /\ cl[c].id \in pend
        THEN [cl[c] EXCEPT !.st = "rejected", !.by = "reset", !.reason = ResetMessage]
        ELSE cl[c]]
RejectPending(cl, pend) ==
    [c \in CallIds |->
        IF cl[c].st = "sent" /\ cl[c].id \in pend
        THEN Rejected(cl[c], "reset", ResetMessage)
        ELSE cl[c]]

\* SmoothingClient.resetWorker / SimplificationClient.resetWorker (and
\* dispose, which only calls it): terminate, forget the worker, reject
\* everything pending, clear the pending map.  With no worker and nothing
\* pending the call changes nothing.
ResetWorker ==
    /\ ckind \in PendingMapClients
    /\ cworker # 0
    /\ workers' = Terminate(workers, cworker)
    /\ cworker' = 0
    /\ calls' = RejectPending(calls, pending)
    /\ pending' = {}
    /\ UNCHANGED <<ckind, nextId, wvars, mvars, evars>>

\* The pings a worker has not answered yet or whose answer is not dispatched.
PingsInFlight(wk) ==
    Cardinality({i \in DOMAIN wk.inq : wk.inq[i].ping})
        + Cardinality({i \in DOMAIN wk.chan : wk.chan[i].kind = "ready"})

\* SmoothingClient.ping / SimplificationClient.ping: ensureWorker, then post
\* a ping to the worker.  Its promise is not entered in the pending map.
\* The page pings only while fewer than MaxWorkers workers have been created.
PingCall ==
    /\ ckind \in PendingMapClients
    /\ Len(workers) < MaxWorkers
    /\ LET create == cworker = 0
           ws == IF create THEN Append(workers, NewWorker("none", <<>>)) ELSE workers
           cw == IF create THEN Len(workers) + 1 ELSE cworker
       IN  /\ PingsInFlight(ws[cw]) < MaxPings
           /\ workers' = [ws EXCEPT ![cw].inq = Append(@, Ping(0))]
           /\ cworker' = cw
    /\ UNCHANGED <<ckind, calls, nextId, pending, wvars, mvars, evars>>

\* dispose() of FillHolesClient / SelfIntersectionsClient (terminate only)
\* and of AnnotationsClient (terminate, then pending.clear()).  No promise
\* is settled and no timer is cleared.  SmoothingClient / SimplificationClient
\* dispose by ResetWorker.
Dispose ==
    /\ ckind \notin PendingMapClients
    /\ ~Disposed
    /\ workers' = [Terminate(workers, cworker) EXCEPT ![cworker].disposed = TRUE]
    /\ pending' = {}
    /\ UNCHANGED <<ckind, cworker, calls, nextId, wvars, mvars, evars>>

\* Worker w fires an 'error' or a 'messageerror' event.  Only the per-call
\* clients listen: waitForReady's onError rejects the readiness promise, and
\* the onError / onMessageError of every call in flight on w cleans up,
\* replaces the current worker and rejects, one after the other.
WorkerError(w, ev) ==
    /\ ckind \in PerCallClients
    /\ workers[w].alive
    /\ LET start == ev = "error" /\ workers[w].rp = "pending"
           S == {c \in CallIds : calls[c].st = "sent" /\ calls[c].w = w}
           RECURSIVE resets(_, _)
           resets(ws, k) ==
               IF k = 0 THEN ws ELSE resets(resetWorker(ws, Len(ws)), k - 1)
       IN  /\ start \/ S # {}
           /\ calls' = [c \in CallIds |->
                 IF c \in S THEN Rejected(calls[c], "error", WorkerErrorMessage)
                 ELSE IF start /\ c \in Waiting(w)
                 THEN Rejected(calls[c], "ready", NotReadyMessage)
                 ELSE calls[c]]
           /\ workers' = resets(IF start THEN [workers EXCEPT ![w].rp = "rejected"]
                                ELSE workers, Cardinality(S))
           /\ cworker' = IF S = {} THEN cworker ELSE Len(workers) + Cardinality(S)
    /\ UNCHANGED <<ckind, nextId, pending, wvars, mvars, evars>>

NextClient ==
    \/ \E c \in CallIds : \E opt \in TimeoutOpts : Call(c, opt)
    \/ \E w \in DOMAIN workers : WorkerTakes(w)
    \/ \E w \in DOMAIN workers : \E ok \in BOOLEAN : WorkerFinishes(w, ok)
    \/ \E w \in DOMAIN workers : Deliver(w)
    \/ \E c \in CallIds : Timeout(c)
    \/ \E w \in DOMAIN workers : ReadyTimeout(w)
    \/ ResetWorker
    \/ PingCall
    \/ Dispose
    \/ \E w \in DOMAIN workers : \E ev \in {"error", "messageerror"} : WorkerError(w, ev)

SpecClient == InitClient /\ [][NextClient]_vars

\* FillHolesClient / SelfIntersectionsClient alone, with the one thing the
\* page's event loop guarantees: a timer that stays armed fires (the timer of
\* a call, the 15 s timer of waitForReady).  Nothing is assumed of the worker.
\* Calls are made with timeoutMs omitted (120000) or 0.
NextPerCall ==
    \/ \E c \in CallIds : \E opt \in {o \in TimeoutOpts : o.ms = 0} : Call(c, opt)
    \/ \E w \in DOMAIN workers : WorkerTakes(w)
    \/ \E w \in DOMAIN workers : \E ok \in BOOLEAN : WorkerFinishes(w, ok)
    \/ \E w \in DOMAIN workers : Deliver(w)
    \/ \E c \in CallIds : Timeout(c)
    \/ \E w \in DOMAIN workers : ReadyTimeout(w)
    \/ Dispose
    \/ \E w \in DOMAIN workers : \E ev \in {"error", "messageerror"} : WorkerError(w, ev)

InitPerCall == InitClient /\ ckind \in PerCallClients

SpecPerCallTimers ==
    /\ InitPerCall
    /\ [][NextPerCall]_vars
    /\ \A c \in CallIds : WF_vars(Timeout(c))
    /\ \A w \in 1..(2 * MaxCalls + 1) : WF_vars(w \in DOMAIN workers /\ ReadyTimeout(w))

\* ------------------------------------------------- properties of a client
ResponseInFlight(c) ==
    \E i \in DOMAIN workers[calls[c].w].chan :
        /\ workers[calls[c].w].chan[i].id = calls[c].id
        /\ workers[calls[c].w].chan[i].kind = "final"

\* C2: once the worker has posted a failure response for a pending request,
\* the request's promise is never resolved, the response is not lost while
\* the promise is still unsettled, and a rejection made from the response
\* includes the worker's error text.
C2_FailureRejects ==
    \A c \in CallIds :
        calls[c].posted = "fail" =>
            /\ calls[c].st # "resolved"
            /\ calls[c].st = "sent" => ResponseInFlight(c)
            /\ calls[c].st = "rejected" /\ calls[c].by = "response" =>
                  Includes(calls[c].reason, WorkerErrText)

\* C3: after a call was rejected by its timeout, no live worker is executing
\* its job or has it queued (so nothing can be queued behind it).
C3_TimeoutCancelsJob ==
    \A c \in CallIds :
        calls[c].st = "rejected" /\ calls[c].by = "timeout" =>
            \A w \in DOMAIN workers :
                workers[w].alive =>
                    /\ workers[w].cur # calls[c].id
                    /\ \A i \in DOMAIN workers[w].inq :
                          workers[w].inq[i] # JobRequest(calls[c].id)

\* C4: in SmoothingClient / SimplificationClient a call with timeoutMs > 0
\* that is still waiting has its timer armed, a call rejected by the timer had
\* timeoutMs > 0, carries the 'timed out' error and is no longer in the
\* pending map; a call with timeoutMs 0 or omitted has no timer and is never
\* rejected for elapsed time.
C4_TimeoutOnlyWhenPositive ==
    ckind \in PendingMapClients =>
        \A c \in CallIds :
            /\ calls[c].st = "sent" /\ calls[c].timeoutMs > 0 =>
                  calls[c].timer /\ calls[c].id \in pending
            /\ calls[c].by = "timeout" =>
                  /\ calls[c].timeoutMs > 0
                  /\ calls[c].st = "rejected"
                  /\ calls[c].reason = TimedOutMessage(calls[c].timeoutMs)
                  /\ calls[c].id \notin pending
            /\ calls[c].timeoutMs = 0 => ~calls[c].timer /\ calls[c].by # "timeout"

\* One call timed out and another, made without a timeout, was answered.
C4_Witness ==
    /\ ckind \in PendingMapClients
    /\ \E c \in CallIds, d \in CallIds :
          /\ calls[c].by = "timeout" /\ calls[c].timeoutMs > 0
          /\ calls[d].timeoutMs = 0 /\ calls[d].st = "resolved"

\* A step of smooth / simplify (a call leaves "idle") or of ping (a ping is
\* posted to the current worker).
CallOrPingStep ==
    \/ \E c \in CallIds : calls[c].st = "idle" /\ calls'[c].st # "idle"
    \/ /\ cworker' # 0
       /\ workers'[cworker'].inq # <<>>
       /\ workers'[cworker'].inq[Len(workers'[cworker'].inq)] = Ping(0)

\* C11: in SmoothingClient / SimplificationClient, when resetWorker (or
\* dispose) returns, the worker it held is terminated and the worker
\* reference is null, every request that was in the pending map is rejected
\* with 'Worker was reset' and its timer is cancelled, and the pending map is
\* empty; while the reference is null no worker is alive, and a worker is
\* created only by a step of smooth / simplify / ping.
C11_ResetWorkerContract ==
    [][(ckind \in PendingMapClients =>
          /\ cworker # 0 /\ cworker' = 0 =>
                /\ ~workers'[cworker].alive
                /\ \A c \in CallIds :
                      calls[c].st = "sent" /\ calls[c].id \in pending =>
                          /\ calls'[c].st = "rejected"
                          /\ calls'[c].reason = ResetMessage
                          /\ ~calls'[c].timer
          /\ cworker' = 0 =>
                /\ pending' = {}
                /\ \A w \in DOMAIN workers' : ~workers'[w].alive
                /\ \A c \in CallIds : ~calls'[c].timer
          /\ Len(workers') > Len(workers) => cworker = 0 /\ CallOrPingStep
       )]_vars

\* A request with a timeout was rejected by a reset, and a later call created
\* the next worker.
C11_Witness ==
    /\ ckind \in PendingMapClients
    /\ Len(workers) >= 2
    /\ cworker = Len(workers)
    /\ \E c \in CallIds :
          /\ calls[c].by = "reset" /\ calls[c].timeoutMs > 0
          /\ calls[c].reason = ResetMessage
          /\ ~workers[calls[c].w].alive

\* C22: on a FillHolesClient / SelfIntersectionsClient the failure or the
\* timeout of one call leaves the others alone: a call that still waits for
\* its response has its job on a live worker, which the reset made for
\* another call has not terminated.
C22_CallsIndependent ==
    ckind \in PerCallClients /\ ~Disposed =>
        \A c \in CallIds : calls[c].st = "sent" => workers[calls[c].w].alive

\* The calls a worker served and that failed: by a failure response, by an
\* error / messageerror event or by their timeout.
Failed(c) == calls[c].st = "rejected" /\ calls[c].by \in {"response", "error", "timeout"}

\* C23: after a fillHoles / detect / repair call has failed, the worker
\* that served it is terminated and a later worker has taken its place; and
\* whenever a job request is posted, it goes to the current worker, which is
\* alive and was created after every failed call's worker.
C23_FailedWorkerReplaced ==
    /\ [](ckind \in PerCallClients =>
             \A c \in CallIds :
                 Failed(c) => ~workers[calls[c].w].alive /\ calls[c].w < cworker)
    /\ [][(ckind \in PerCallClients =>
             \A w \in DOMAIN workers :
                 Len(workers'[w].inq) > Len(workers[w].inq) =>
                     /\ w = cworker'
                     /\ workers'[w].alive
                     /\ \A c \in CallIds : Failed(c) => calls[c].w < w
          )]_vars

\* A call failed on one worker and a later call's request went to the
\* replacement, which is alive.
C23_Witness ==
    /\ ckind \in PerCallClients
    /\ \E c \in CallIds, d \in CallIds :
          /\ Failed(c) /\ calls[c].by = "response"
          /\ calls[d].st = "sent" /\ calls[d].id > calls[c].id
          /\ calls[d].w = calls[c].w + 1
          /\ workers[calls[d].w].alive
          /\ ~workers[calls[c].w].alive

\* C24: on FillHolesClient, SelfIntersectionsClient and AnnotationsClient a
\* worker has a job request queued or in execution only after it answered
\* the ping it got at creation and the page dispatched that answer; the
\* readiness promise of a worker resolves only in a step that dispatches a
\* message of that worker.
C24_NoJobBeforeFirstMessage ==
    /\ [](ckind \notin PendingMapClients =>
             \A w \in DOMAIN workers :
                 workers[w].cur # 0 \/ (\E i \in DOMAIN workers[w].inq : ~workers[w].inq[i].ping)
                     => PingsInFlight(workers[w]) = 0 /\ workers[w].rp = "resolved")
    /\ [][(ckind \notin PendingMapClients =>
             \A w \in DOMAIN workers :
                 workers[w].rp # "resolved" /\ workers'[w].rp = "resolved" =>
                     /\ workers[w].chan # <<>>
                     /\ workers'[w].chan = Tail(workers[w].chan)
          )]_vars

\* A replacement worker, created by a reset, is executing a job.
C24_Witness ==
    /\ ckind \in PerCallClients
    /\ \E w \in DOMAIN workers :
          w >= 2 /\ workers[w].alive /\ workers[w].cur # 0

\* C26: for every client, once a call's promise has settled no step changes
\* its outcome (state, cause, reason) or runs its onStatus callback.
C26_SettledStaysSettled ==
    [][\A c \in CallIds :
          calls[c].st \in {"resolved", "rejected"} =>
              /\ calls'[c].st = calls[c].st
              /\ calls'[c].by = calls[c].by
              /\ calls'[c].reason = calls[c].reason
              /\ calls'[c].late = 0
      ]_vars

\* A smooth / simplify call timed out before the worker had answered; the
\* worker, still alive, has since finished the job, and its messages for that
\* id have all been dispatched.
C26_Witness ==
    /\ ckind \in PendingMapClients
    /\ \E c \in CallIds :
          /\ calls[c].st = "rejected" /\ calls[c].by = "timeout"
          /\ calls[c].posted = "none"
          /\ workers[calls[c].w].alive
          /\ workers[calls[c].w].cur # calls[c].id
          /\ \A i \in DOMAIN workers[calls[c].w].inq :
                workers[calls[c].w].inq[i].id # calls[c].id
          /\ \A i \in DOMAIN workers[calls[c].w].chan :
                workers[calls[c].w].chan[i].id # calls[c].id

\* C27: within one client the request ids are pairwise distinct and below
\* nextId; a step that gives a call its id takes it from nextId upward and
\* nextId never decreases, across worker resets too; and a call is settled
\* from a response only in a step that dispatches a message carrying its id.
C27_IdsDistinctAndIncreasing ==
    /\ [](\A c \in CallIds :
             calls[c].id # 0 =>
                 /\ calls[c].id < nextId
                 /\ \A d \in CallIds : d # c => calls[d].id # calls[c].id)
    /\ [][/\ nextId' >= nextId
          /\ \A c \in CallIds :
                /\ calls[c].id # 0 => calls'[c].id = calls[c].id
                /\ calls[c].id = 0 /\ calls'[c].id # 0 =>
                      calls'[c].id >= nextId /\ calls'[c].id < nextId'
                /\ calls[c].by # "response" /\ calls'[c].by = "response" =>
                      \E w \in DOMAIN workers :
                          /\ workers[w].alive /\ workers[w].chan # <<>>
                          /\ workers'[w].chan \in {Tail(workers[w].chan), <<>>}
                          /\ Head(workers[w].chan).kind = "final"
                          /\ Head(workers[w].chan).id = calls[c].id
      ]_vars

\* Two requests of one client went to different workers, on either side of
\* a reset, and the later one was resolved from its response.
C27_Witness ==
    \E c \in CallIds, d \in CallIds :
        /\ calls[c].id # 0 /\ calls[c].id < calls[d].id
        /\ calls[c].w < calls[d].w
        /\ calls[d].st = "resolved"

\* C29: once dispose() has been called, the client creates no Worker any
\* more: no step after it (a timeout of a call that was in flight, a ready
\* timeout) adds a worker.
C29_NoWorkerAfterDispose ==
    [][Disposed => Len(workers') = Len(workers)]_vars

\* C25: every fillHoles / detect / repair call made with a non-zero
\* timeoutMs (120000 when omitted) eventually settles, whether it waits for
\* the worker to become ready or for its response, whatever the worker does.
C25_TimedCallsSettle ==
    \A c \in CallIds :
        [](calls[c].st \in {"waitReady", "sent"} /\ calls[c].timeoutMs # 0
              => <>(calls[c].st \in {"resolved", "rejected"}))

\* A call with a timeout was rejected by its timer on a worker that a reset
\* made for another call had already terminated.
C25_Witness ==
    /\ ckind \in PerCallClients
    /\ \E c \in CallIds, d \in CallIds :
          /\ c # d /\ calls[c].w = calls[d].w
          /\ calls[c].by = "response" /\ calls[c].st = "rejected"
          /\ calls[d].by = "timeout" /\ calls[d].posted = "none"
          /\ calls[d].timeoutMs # 0

\* C30: every request promise of AnnotationsClient settles in the end, so a
\* promise that has not settled yet can always still be settled: the pending
\* map holds its resolvers (for a request that waits for the handshake, the
\* resolvers of the ping, id 1) and its worker is alive.  That includes the
\* requests pending when dispose() is called.
C30_RequestsCanSettle ==
    ckind = "annotations" =>
        \A c \in CallIds :
            /\ calls[c].st = "sent" =>
                  calls[c].id \in pending /\ workers[calls[c].w].alive
            /\ calls[c].st = "waitReady" =>
                  1 \in pending /\ workers[calls[c].rpw].alive

\* -------------------------------------------------------- MeshChecksPage
\* A binary STL in an ArrayBuffer: its byteLength and the uint32 at offset 80.
StlHeaderLen == 84

Buffer(len, tris) == [byteLength |-> len, tris |-> tris, detached |-> FALSE]

StlFiles ==
    {Buffer(50, 0)} \cup {Buffer(len, t) : len \in {84, 134}, t \in 0..MaxTris}

Detached == [byteLength |-> 0, tris |-> 0, detached |-> TRUE]

\* triangleCountFromStl(buf)
triangleCountFromStl(buf) ==
    IF buf.byteLength < StlHeaderLen THEN [null |-> TRUE, n |-> 0]
    ELSE [null |-> FALSE, n |-> buf.tris]

\* buf.slice(0): a new ArrayBuffer object with a copy of the bytes.
slice(bufs, i) == [bufs |-> Append(bufs, bufs[i]), ref |-> Len(bufs) + 1]

\* postMessage(msg, [buf]): the receiver gets the bytes, the sender's object
\* is detached.
Transfer(bufs, i) == [bufs |-> [bufs EXCEPT ![i] = Detached], got |-> bufs[i]]

\* The buffer runHolesCheck hands to client.fillHoles: inputBuf.slice(0).
HolesInputShared(bufs, i) == [bufs |-> bufs, ref |-> i]
HolesInput(bufs, i) == slice(bufs, i)

\* The buffer runIntersectionsCheck hands to client.detect: inputBuf.slice(0).
IntersectionsInput(bufs, i) == slice(bufs, i)

\* runHolesCheck's verdict from the triangle counts, or from the byte sizes
\* when a count cannot be read.
HolesVerdict(inputTris, output, inputBuf) ==
    LET outputTris == triangleCountFromStl(output)
    IN  IF ~inputTris.null /\ ~outputTris.null
        THEN IF outputTris.n - inputTris.n > 0 THEN "fail" ELSE "pass"
        ELSE IF output.byteLength # inputBuf.byteLength THEN "fail" ELSE "pass"

NoRefs == [inputBuf |-> 0, holesIn |-> 0, intsIn |-> 0, detectCopy |-> 0]
NothingReceived == [holes |-> <<>>, ints |-> <<>>]

InitMC ==
    /\ NoWorkerScript
    /\ NoClient
    /\ NoEngine
    /\ mpc = [run |-> "idle", holes |-> "idle", ints |-> "idle"]
    /\ mbufs = <<>>
    /\ mref = NoRefs
    /\ mrecv = NothingReceived
    /\ mcheck = [holes |-> "idle", ints |-> "idle",
                 inputTris |-> [null |-> TRUE, n |-> 0], fetched |-> <<>>]

\* onRunChecks up to `await fetch(...)`.
OnRunChecks ==
    /\ mpc.run = "idle"
    /\ mpc' = [mpc EXCEPT !.run = "fetching"]
    /\ mcheck' = [mcheck EXCEPT !.holes = "running", !.ints = "running"]
    /\ UNCHANGED <<mbufs, mref, mrecv, wvars, cvars, evars>>

\* The fetch fails: both checks report the error.
FetchFails ==
    /\ mpc.run = "fetching"
    /\ mpc' = [mpc EXCEPT !.run = "done"]
    /\ mcheck' = [mcheck EXCEPT !.holes = "error", !.ints = "error"]
    /\ UNCHANGED <<mbufs, mref, mrecv, wvars, cvars, evars>>

\* The fetch delivers the STL: onRunChecks reads the triangle count and
\* starts runHolesCheck and runIntersectionsCheck, each running up to its
\* client call's `await this.readyPromise`.
FetchSettles(stl) ==
    /\ mpc.run = "fetching"
    /\ stl \in StlFiles
    /\ LET b0 == <<stl>>
           h == HolesInput(b0, 1)
           x == IntersectionsInput(h.bufs, 1)
       IN  /\ mbufs' = x.bufs
           /\ mref' = [NoRefs EXCEPT !.inputBuf = 1, !.holesIn = h.ref,
                                     !.intsIn = x.ref]
    /\ mpc' = [run |-> "running", holes |-> "waiting", ints |-> "waiting"]
    /\ mcheck' = [mcheck EXCEPT !.inputTris = triangleCountFromStl(stl),
                                !.fetched = <<stl>>]
    /\ UNCHANGED <<mrecv, wvars, cvars, evars>>

\* FillHolesClient.fillHoles posts its request, transferring its input.
HolesPost ==
    /\ mpc.holes = "waiting"
    /\ LET t == Transfer(mbufs, mref.holesIn)
       IN  /\ mbufs' = t.bufs
           /\ mrecv' = [mrecv EXCEPT !.holes = <<t.got>>]
    /\ mpc' = [mpc EXCEPT !.holes = "posted"]
    /\ UNCHANGED <<mref, mcheck, wvars, cvars, evars>>

\* SelfIntersectionsClient.detect copies its input and transfers the copy.
DetectPost ==
    /\ mpc.ints = "waiting"
    /\ LET c == slice(mbufs, mref.intsIn)
           t == Transfer(c.bufs, c.ref)
       IN  /\ mbufs' = t.bufs
           /\ mref' = [mref EXCEPT !.detectCopy = c.ref]
           /\ mrecv' = [mrecv EXCEPT !.ints = <<t.got>>]
    /\ mpc' = [mpc EXCEPT !.ints = "posted"]
    /\ UNCHANGED <<mcheck, wvars, cvars, evars>>

AllDone(pc) ==
    IF pc.holes = "done" /\ pc.ints = "done" THEN [pc EXCEPT !.run = "done"] ELSE pc

\* fillHoles resolves with the worker's output: runHolesCheck sets its verdict.
HolesResult(output) ==
    /\ mpc.holes = "posted"
    /\ output \in StlFiles
    /\ mcheck' = [mcheck EXCEPT !.holes =
          HolesVerdict(mcheck.inputTris, output, mbufs[mref.inputBuf])]
    /\ mpc' = AllDone([mpc EXCEPT !.holes = "done"])
    /\ UNCHANGED <<mbufs, mref, mrecv, wvars, cvars, evars>>

\* detect resolves with a count: runIntersectionsCheck sets its verdict.
DetectResult(count) ==
    /\ mpc.ints = "posted"
    /\ mcheck' = [mcheck EXCEPT !.ints = IF count = 0 THEN "pass" ELSE "fail"]
    /\ mpc' = AllDone([mpc EXCEPT !.ints = "done"])
    /\ UNCHANGED <<mbufs, mref, mrecv, wvars, cvars, evars>>

\* A client call rejects (worker not ready, failure response, timeout): the
\* check's catch block reports the error.
CheckRejects(which) ==
    /\ which \in {"holes", "ints"}
    /\ mpc[which] \in {"waiting", "posted"}
    /\ mcheck' = [mcheck EXCEPT ![which] = "error"]
    /\ mpc' = AllDone([mpc EXCEPT ![which] = "done"])
    /\ UNCHANGED <<mbufs, mref, mrecv, wvars, cvars, evars>>

NextMC ==
    \/ OnRunChecks
    \/ FetchFails
    \/ \E stl \in StlFiles : FetchSettles(stl)
    \/ HolesPost
    \/ DetectPost
    \/ \E output \in StlFiles : HolesResult(output)
    \/ \E count \in 0..1 : DetectResult(count)
    \/ \E which \in {"holes", "ints"} : CheckRejects(which)

SpecMC == InitMC /\ [][NextMC]_vars

\* C10: once the STL is fetched, the fetched buffer is never detached and
\* keeps its bytes; each check's own buffer is a separate object that stays
\* intact until that check transfers it; and what each worker receives is the
\* complete fetched STL.
C10_ChecksShareNothing ==
    mpc.run \in {"running", "done"} /\ mref.inputBuf # 0 =>
        /\ mbufs[mref.inputBuf] = mcheck.fetched[1]
        /\ mref.holesIn # mref.inputBuf /\ mref.intsIn # mref.inputBuf
        /\ mref.holesIn # mref.intsIn
        /\ mpc.holes = "waiting" => mbufs[mref.holesIn] = mcheck.fetched[1]
        /\ mpc.ints = "waiting" => mbufs[mref.intsIn] = mcheck.fetched[1]
        /\ mrecv.holes # <<>> => mrecv.holes = mcheck.fetched
        /\ mrecv.ints # <<>> => mrecv.ints = mcheck.fetched

\* Both checks have transferred their buffers to their workers.
C10_Witness ==
    /\ mpc.holes = "posted" /\ mpc.ints = "posted"
    /\ mbufs[mref.holesIn].detached /\ mbufs[mref.detectCopy].detached
    /\ mrecv.holes = mrecv.ints
    /\ mrecv.holes[1].byteLength > StlHeaderLen

\* ====================================================== an engine request
\* SpecEngine follows one request from the caller's options to the settled
\* promise: the client builds the message, the worker passes its fields to
\* the engine entry point, the engine works on its Mesh Store, the worker
\* reads the out-parameters and replies, the client settles the promise.
\* Numbers in [0, 1] are kept in hundredths.  The engine is reached only
\* through its entry points; what it does inside is taken from its design
\* document.

\* An option the caller left out (undefined).
Omitted == -1

\* v ?? d
OrElse(v, d) == IF v = Omitted THEN d ELSE v

SmoothingMethods == {"laplacian", "taubin", "laplacianHC", "tangentialRelaxation"}

METHOD_INDEX(method) ==
    CASE method = "laplacian" -> 0
      [] method = "taubin" -> 1
      [] method = "laplacianHC" -> 2
      [] method = "tangentialRelaxation" -> 3

Weights == {Omitted, 30, 50, 53}

\* The options of client.smooth, as SmoothingPage or another caller gives them.
SmoothOptions ==
    [op : {"smooth"}, method : SmoothingMethods, iterations : 0..MaxIter,
     lambda : Weights, mu : Weights]

\* The landmarks handed to patchFromLandmarks: n face indices and n positions,
\* by handleCreatePatch of AnnotationsPage (viaPage) or by another caller.
PatchFromLandmarksOpts ==
    [op : {"patch_from_landmarks"}, n : 0..MaxLandmarks, viaPage : BOOLEAN]

\* FillHolesClient.fillHoles takes the input and nothing the engine sees.
FillHolesOpts == [op : {"fill_holes"}]

\* The options of client.simplify: the ratio in hundredths, preserveBorders
\* left out, false (0) or true (1).
SimplifyOptions ==
    [op : {"simplify"}, targetRatio : {10, 50, 100}, preserveBorders : {Omitted, 0, 1}]

\* AnnotationsPage in patch mode when a face is clicked: the face hit, the
\* click point (on the axis the centroids are measured on), the radius slider,
\* the viewer's scale, the angle-limit switch and the angle slider.
PatchClicks ==
    [op : {"select_patch"}, faceIndex : 1..4, point : {0, 2}, radius : {2, 4},
     scale : {1, 2}, useAngleLimit : BOOLEAN, maxAngle : {0, 45, 90}]

\* handleFaceClick in patch mode: the SelectPatchOpts given to
\* client.selectPatch.  The radius goes to STL space; the angle is -1 when
\* the limit is switched off.
handleFaceClickSendsSlider(page) ==
    [seedFaceIndex |-> page.faceIndex, center |-> page.point,
     radius |-> page.radius \div page.scale,
     maxNormalAngleDeg |-> page.maxAngle]
handleFaceClick(page) ==
    [seedFaceIndex |-> page.faceIndex, center |-> page.point,
     radius |-> page.radius \div page.scale,
     maxNormalAngleDeg |-> IF page.useAngleLimit THEN page.maxAngle ELSE -1]

\* The message the client posts.
\*   SmoothingClient.smooth / AnnotationsClient.patchFromLandmarks /
\*   AnnotationsClient.selectPatch
MessageTargetOneFace(opts) ==
    CASE opts.op = "smooth" ->
           [method |-> METHOD_INDEX(opts.method), iterations |-> opts.iterations,
            lambda |-> OrElse(opts.lambda, 50), mu |-> OrElse(opts.mu, 53),
            alpha |-> OrElse(Omitted, 0), beta |-> OrElse(Omitted, 50)]
      [] opts.op = "patch_from_landmarks" ->
           [faceIndices |-> [i \in 1..opts.n |-> i],
            positions |-> [i \in 1..3 * opts.n |-> i],
            numLandmarks |-> Len([i \in 1..opts.n |-> i])]
      [] opts.op = "simplify" ->
           [targetFaces |-> 1, targetRatio |-> opts.targetRatio,
            preserveBorders |-> OrElse(opts.preserveBorders, 0)]
      [] opts.op = "select_patch" ->
           LET o == handleFaceClick(opts)
           IN  [seedFaceIndex |-> o.seedFaceIndex, center |-> o.center,
                radius |-> o.radius, maxNormalAngleDeg |-> o.maxNormalAngleDeg]
      [] OTHER -> [input |-> "transferred"]
MessageCountsPositions(opts) ==
    CASE opts.op = "smooth" ->
           [method |-> METHOD_INDEX(opts.method), iterations |-> opts.iterations,
            lambda |-> OrElse(opts.lambda, 50), mu |-> OrElse(opts.mu, 53),
            alpha |-> OrElse(Omitted, 0), beta |-> OrElse(Omitted, 50)]
      [] opts.op = "patch_from_landmarks" ->
           [faceIndices |-> [i \in 1..opts.n |-> i],
            positions |-> [i \in 1..3 * opts.n |-> i],
            numLandmarks |-> 3 * opts.n]
      [] opts.op = "simplify" ->
           [targetFaces |-> 0, targetRatio |-> opts.targetRatio,
            preserveBorders |-> OrElse(opts.preserveBorders, 0)]
      [] opts.op = "select_patch" ->
           LET o == handleFaceClick(opts)
           IN  [seedFaceIndex |-> o.seedFaceIndex, center |-> o.center,
                radius |-> o.radius, maxNormalAngleDeg |-> o.maxNormalAngleDeg]
      [] OTHER -> [input |-> "transferred"]
Message(opts) ==
    CASE opts.op = "smooth" ->
           [method |-> METHOD_INDEX(opts.method), iterations |-> opts.iterations,
            lambda |-> OrElse(opts.lambda, 50), mu |-> OrElse(opts.mu, 53),
            alpha |-> OrElse(Omitted, 0), beta |-> OrElse(Omitted, 50)]
      [] opts.op = "patch_from_landmarks" ->
           [faceIndices |-> [i \in 1..opts.n |-> i],
            positions |-> [i \in 1..3 * opts.n |-> i],
            numLandmarks |-> Len([i \in 1..opts.n |-> i])]
      [] opts.op = "simplify" ->
           [targetFaces |-> 0, targetRatio |-> opts.targetRatio,
            preserveBorders |-> OrElse(opts.preserveBorders, 0)]
      [] opts.op = "select_patch" ->
           LET o == handleFaceClick(opts)
           IN  [seedFaceIndex |-> o.seedFaceIndex, center |-> o.center,
                radius |-> o.radius, maxNormalAngleDeg |-> o.maxNormalAngleDeg]
      [] OTHER -> [input |-> "transferred"]

\* The arguments the worker passes to the engine entry point.
\*   _meshlib_smooth_stl / _meshlib_annotations_patch_from_landmarks
ArgsSwapped(op, msg) ==
    CASE op = "smooth" ->
           [method |-> msg.method, iterations |-> msg.iterations,
            lambda |-> msg.mu, mu |-> msg.lambda,
            alpha |-> msg.alpha, beta |-> msg.beta]
      [] op = "patch_from_landmarks" ->
           [faceIndices |-> msg.faceIndices, numLandmarks |-> msg.numLandmarks]
      [] op = "simplify" ->
           [targetFaces |-> msg.targetFaces, targetRatio |-> msg.targetRatio,
            preserveBorders |-> msg.preserveBorders]
      [] op = "select_patch" ->
           [seedFaceIndex |-> msg.seedFaceIndex, center |-> msg.center,
            radius |-> msg.radius, maxNormalAngleDeg |-> msg.maxNormalAngleDeg]
      [] OTHER -> [input |-> "heap"]
Args(op, msg) ==
    CASE op = "smooth" ->
           [method |-> msg.method, iterations |-> msg.iterations,
            lambda |-> msg.lambda, mu |-> msg.mu,
            alpha |-> msg.alpha, beta |-> msg.beta]
      [] op = "patch_from_landmarks" ->
           [faceIndices |-> msg.faceIndices, numLandmarks |-> msg.numLandmarks]
      [] op = "simplify" ->
           [targetFaces |-> msg.targetFaces, targetRatio |-> msg.targetRatio,
            preserveBorders |-> msg.preserveBorders]
      [] op = "select_patch" ->
           [seedFaceIndex |-> msg.seedFaceIndex, center |-> msg.center,
            radius |-> msg.radius, maxNormalAngleDeg |-> msg.maxNormalAngleDeg]
      [] OTHER -> [input |-> "heap"]

\* Meshes given to the engine: a closed ring of vertices at integer
\* positions; a closed surface of V vertices has 2V - 4 faces.
RingMesh(pos) == [faces |-> 2 * Len(pos) - 4, pos |-> pos]
Meshes == {RingMesh(<<0, 40, 80>>), RingMesh(<<0, 80, 40, 120>>)}

\* Meshes with holes, given to fill-holes: the face count, the border
\* half-edges <<origin, destination>> (hole h is a ring over the vertices
\* 10h+1 .. 10h+n), and the holes whose boundary cannot be triangulated
\* (named by their first vertex).
HoledMeshes ==
    LET ring(h, n) == {<<10 * h + i, 10 * h + (i % n) + 1>> : i \in 1..n}
        sizes == UNION {[1..k -> 3..MaxLoop] : k \in 0..MaxHoles}
    IN  {[faces |-> 4, border |-> UNION {ring(h, sz[h]) : h \in DOMAIN sz},
          bad |-> {10 * h + 1 : h \in B}] : sz \in sizes, B \in SUBSET (1..MaxHoles)}

\* Meshes given to selectPatch: four faces, the pairs of faces that share an
\* edge (a strip or a ring), every face's centroid on one axis and the
\* direction of its normal in degrees within one plane.
PatchMeshes ==
    [adj : {{{1, 2}, {2, 3}, {3, 4}}, {{1, 2}, {2, 3}, {3, 4}, {4, 1}}},
     cen : {<<0, 1, 2, 3>>, <<0, 3, 1, 2>>},
     nrm : {<<0, 0, 0, 0>>, <<0, 90, 0, 45>>, <<0, 45, 90, 45>>}]

\* selectPatch(seedFace, center, radius, maxNormalAngle): breadth-first
\* region growth from the seed face across shared edges.  A neighbour of the
\* frontier is admitted if its centroid lies within radius of center and its
\* normal's angle to the seed's normal is at most maxNormalAngle; the angle
\* is not checked when maxNormalAngle < 0.
selectPatch(mesh, args) ==
    LET seed == args.seedFaceIndex
        abs(x) == IF x < 0 THEN 0 - x ELSE x
        admitted(g) ==
            /\ abs(mesh.cen[g] - args.center) <= args.radius
            /\ \/ args.maxNormalAngleDeg < 0
               \/ abs(mesh.nrm[g] - mesh.nrm[seed]) <= args.maxNormalAngleDeg
        RECURSIVE grow(_, _)
        grow(visited, frontier) ==
            IF frontier = {} THEN visited
            ELSE LET next == {g \in DOMAIN mesh.cen \ visited :
                                 /\ \E f \in frontier : {f, g} \in mesh.adj
                                 /\ admitted(g)}
                 IN  grow(visited \cup next, next)
    IN  grow({seed}, {seed})

\* Meshes given to simplification: the face count, whether the mesh has
\* border edges, and the face count below which every collapse would invert
\* a normal or make a non-manifold edge.
SimplifyMeshes ==
    {m \in [faces : 4..MaxFaces, hasBorder : BOOLEAN, floor : 2..MaxFaces] :
        m.floor <= m.faces}

\* The faces the legal collapses take away: 2 for an interior edge, 1 for a
\* border edge, which preserveBorders forbids.
LegalCollapses(args, mesh) ==
    {d \in {1, 2} :
        /\ mesh.faces - d >= mesh.floor
        /\ d = 1 => mesh.hasBorder /\ args.preserveBorders = 0}

\* The target is reached: the face target if one is given, else the ratio of
\* the input's faces.
TargetReached(args, inputFaces, faces) ==
    IF args.targetFaces > 0 THEN faces <= args.targetFaces
    ELSE 100 * faces <= args.targetRatio * inputFaces

\* removeSmallComponents is asked of the Component Filter directly, with the
\* area-ratio threshold in hundredths; its mesh is the areas of the components.
RemoveSmallOpts == [op : {"remove_small_components"}, threshold : {0, 50, 100, 150}]

\* removeSmallComponents(areaRatioThreshold): the component of maximum area
\* is identified (the first, if several have it); every other component with
\* area / maxArea below the threshold is removed.
removeSmallComponentsInclusive(areas, t) ==
    LET largest == CHOOSE i \in DOMAIN areas :
                       /\ \A j \in DOMAIN areas : areas[j] <= areas[i]
                       /\ \A j \in DOMAIN areas : areas[j] = areas[i] => i <= j
        removed == {i \in DOMAIN areas \ {largest} :
                       100 * areas[i] <= t * areas[largest]}
    IN  [largest |-> largest, kept |-> DOMAIN areas \ removed,
         removed |-> Cardinality(removed)]
removeSmallComponents(areas, t) ==
    LET largest == CHOOSE i \in DOMAIN areas :
                       /\ \A j \in DOMAIN areas : areas[j] <= areas[i]
                       /\ \A j \in DOMAIN areas : areas[j] = areas[i] => i <= j
        removed == {i \in DOMAIN areas \ {largest} :
                       100 * areas[i] < t * areas[largest]}
    IN  [largest |-> largest, kept |-> DOMAIN areas \ removed,
         removed |-> Cardinality(removed)]

\* FindHoles: the border half-edges grouped into closed loops by following
\* each edge to the border edge that starts where it ends; every loop is the
\* sequence of its vertices, starting at its smallest.
RECURSIVE FindHolesFirstOnly(_)
FindHolesFirstOnly(border) ==
    IF border = {} THEN <<>>
    ELSE LET start == CHOOSE v \in {e[1] : e \in border} :
                          \A e \in border : v <= e[1]
             next(v) == (CHOOSE e \in border : e[1] = v)[2]
             RECURSIVE walk(_, _)
             walk(v, acc) == IF next(v) = start THEN Append(acc, v)
                             ELSE walk(next(v), Append(acc, v))
         IN  <<walk(start, <<>>)>>
RECURSIVE FindHoles(_)
FindHoles(border) ==
    IF border = {} THEN <<>>
    ELSE LET start == CHOOSE v \in {e[1] : e \in border} :
                          \A e \in border : v <= e[1]
             next(v) == (CHOOSE e \in border : e[1] = v)[2]
             RECURSIVE walk(_, _)
             walk(v, acc) == IF next(v) = start THEN Append(acc, v)
                             ELSE walk(next(v), Append(acc, v))
             loop == walk(start, <<>>)
             on == {loop[i] : i \in DOMAIN loop}
         IN  <<loop>> \o FindHoles({e \in border : e[1] \notin on})

\* One iteration of the chosen filter on the ring; only positions move.
\*   avg    : the average of a vertex's one-ring neighbours
\*   toward : p + f * (target - p), f in hundredths
\*   Laplacian : every vertex moves to the average of its neighbours
\*   Taubin : inward diffusion by lambda, then outward inflation by mu
\*   Laplacian-HC : a Laplacian step, then a pull back toward a blend of the
\*     original (orig) and the previous positions
\*   Tangential Relaxation : the Laplacian displacement without its component
\*     along the normal (on the ring, half of it)
SmoothIteration(args, orig, pos) ==
    LET n == Len(pos)
        avg(q, i) == (q[IF i = 1 THEN n ELSE i - 1] + q[IF i = n THEN 1 ELSE i + 1]) \div 2
        toward(x, target, f) == x + (f * (target - x)) \div 100
        lap == [i \in DOMAIN pos |-> avg(pos, i)]
        shrunk == [i \in DOMAIN pos |-> toward(pos[i], avg(pos, i), args.lambda)]
        b == [i \in DOMAIN pos |-> lap[i] - toward(pos[i], orig[i], args.alpha)]
    IN  CASE args.method = 0 -> lap
          [] args.method = 1 ->
               [i \in DOMAIN pos |-> toward(shrunk[i], avg(shrunk, i), 0 - args.mu)]
          [] args.method = 2 ->
               [i \in DOMAIN pos |-> lap[i] - toward(avg(b, i), b[i], args.beta)]
          [] OTHER -> [i \in DOMAIN pos |-> toward(pos[i], avg(pos, i), 50)]

\* Error texts: the engine's typed errors, and the page's own message
\* 'Place at least 3 landmarks to create a patch.'
InvalidParameterError == <<73>>
InsufficientLandmarksError == <<76>>
DegenerateHoleError == <<68>>
PlaceAtLeast3 == <<80, 76, 3>>

\* The precondition an engine entry point checks before it touches the mesh:
\* the error it fails with, <<>> when the arguments are accepted.
Precondition(op, args) ==
    CASE op = "smooth" /\ args.method = 1 /\ args.mu <= args.lambda ->
           InvalidParameterError
      [] op = "patch_from_landmarks" /\ args.numLandmarks < 3 ->
           InsufficientLandmarksError
      [] OTHER -> <<>>

\* What a successful call writes to its out-parameters.
\*   smooth : the mesh written out, its face count and vertex count
\*   patch_from_landmarks : the faces enclosed by the landmark ring and the
\*     ring as one closed contour
\*   select_patch : the admitted faces and their number
Output(op, args, store) ==
    CASE op = "smooth" ->
           [output |-> store.cur, faces |-> store.cur.faces,
            vertices |-> Len(store.cur.pos)]
      [] op = "patch_from_landmarks" ->
           [faceIndices |-> {args.faceIndices[i] : i \in DOMAIN args.faceIndices},
            numFaces |-> Cardinality({args.faceIndices[i] : i \in DOMAIN args.faceIndices}),
            contourSizes |-> <<args.numLandmarks>>, numContours |-> 1]
      [] op = "select_patch" ->
           [faceIndices |-> selectPatch(store.cur, args),
            numFaces |-> Cardinality(selectPatch(store.cur, args))]
      [] op = "fill_holes" ->
           [output |-> [faces |-> store.cur.faces, border |-> store.cur.border]]
      [] op = "simplify" ->
           [output |-> store.cur, inputFaces |-> store.in.faces,
            outputFaces |-> store.cur.faces]

\* The out-parameters of an engine entry point, and what the promise got.
EngineFailed(text) == [rc |-> 1, out |-> <<>>, err |-> text]
EngineOk(out) == [rc |-> 0, out |-> out, err |-> <<>>]
\* shown is the status MeshChecksPage shows for the holes check.
Unsettled ==
    [st |-> "pending", value |-> <<>>, reason |-> <<>>, eng |-> <<>>,
     shown |-> "running"]

\* A mesh written as binary STL: the 80-byte header, the uint32 triangle
\* count and 50 bytes per triangle.
StlOf(mesh) == Buffer(StlHeaderLen + 50 * mesh.faces, mesh.faces)

\* The response the worker posts from the out-parameters.
WorkerResponseSwapsCounts(op, eng) ==
    IF eng.rc # 0
    THEN [ok |-> FALSE, rc |-> eng.rc, error |-> eng.err, result |-> <<>>]
    ELSE [ok |-> TRUE, rc |-> 0, error |-> <<>>,
          result |-> IF op = "smooth"
                     THEN [eng.out EXCEPT !.faces = eng.out.vertices,
                                          !.vertices = eng.out.faces]
                     ELSE eng.out]
WorkerResponse(op, eng) ==
    IF eng.rc # 0
    THEN [ok |-> FALSE, rc |-> eng.rc, result |-> <<>>,
          error |-> IF op = "patch_from_landmarks" /\ eng.err = <<>>
                    THEN DefaultErr ELSE eng.err]
    ELSE [ok |-> TRUE, rc |-> 0, error |-> <<>>, result |-> eng.out]

\* The client's message handler on the final response.
Settle(op, res, d) ==
    IF d.ok
    THEN [res EXCEPT !.st = "resolved", !.value = d.result]
    ELSE [res EXCEPT !.st = "rejected",
             !.reason = FailedMessage(CASE op = "smooth" -> "smoothing"
                                        [] op \in {"patch_from_landmarks", "select_patch"} -> "annotations"
                                        [] op = "simplify" -> "simplification"
                                        [] OTHER -> "fillHoles",
                                      d.rc, d.error)]

InitEngine ==
    /\ NoWorkerScript
    /\ NoClient
    /\ NoPage
    /\ eres = Unsettled
    /\ ereq \in [opts : SmoothOptions \cup PatchFromLandmarksOpts \cup FillHolesOpts
                            \cup SimplifyOptions \cup RemoveSmallOpts \cup PatchClicks,
                 msg : {<<>>}, args : {<<>>}]
    /\ emesh \in [in : CASE ereq.opts.op = "fill_holes" -> HoledMeshes
                         [] ereq.opts.op = "simplify" -> SimplifyMeshes
                         [] ereq.opts.op = "select_patch" -> PatchMeshes
                         [] ereq.opts.op = "remove_small_components" ->
                              UNION {[1..k -> {1, 2, 4}] : k \in 1..MaxComponents}
                         [] OTHER -> Meshes,
                  cur : {<<>>}, it : {0}]
    /\ ereq.opts.op = "fill_holes" =>
          emesh.in.bad \subseteq {e[1] : e \in emesh.in.border}
    /\ epc = IF ereq.opts.op = "remove_small_components" THEN "engine" ELSE "called"

\* handleCreatePatch with fewer than 3 landmarks: the page shows its message
\* and makes no request.
PageRefuses ==
    /\ epc = "called"
    /\ ereq.opts.op = "patch_from_landmarks"
    /\ ereq.opts.viaPage /\ ereq.opts.n < 3
    /\ eres' = [eres EXCEPT !.st = "refused", !.reason = PlaceAtLeast3]
    /\ epc' = "settled"
    /\ UNCHANGED <<ereq, emesh, wvars, cvars, mvars>>

\* The client method: the message is posted.
Request ==
    /\ epc = "called"
    /\ ereq.opts.op = "patch_from_landmarks" /\ ereq.opts.viaPage => ereq.opts.n >= 3
    /\ ereq' = [ereq EXCEPT !.msg = Message(ereq.opts)]
    /\ epc' = "posted"
    /\ UNCHANGED <<emesh, eres, wvars, cvars, mvars>>

\* The worker calls the engine entry point; the engine reads the mesh and
\* checks the arguments.
Invoke ==
    /\ epc = "posted"
    /\ LET args == Args(ereq.opts.op, ereq.msg)
       IN  /\ ereq' = [ereq EXCEPT !.args = args]
           /\ emesh' = [emesh EXCEPT !.cur =
                 IF ereq.opts.op = "fill_holes"
                 THEN [faces |-> emesh.in.faces, border |-> emesh.in.border,
                       todo |-> FindHoles(emesh.in.border), done |-> <<>>]
                 ELSE emesh.in]
           /\ IF Precondition(ereq.opts.op, args) = <<>>
              THEN epc' = "engine" /\ eres' = eres
              ELSE /\ epc' = "returned"
                   /\ eres' = [eres EXCEPT
                         !.eng = EngineFailed(Precondition(ereq.opts.op, args))]
    /\ UNCHANGED <<wvars, cvars, mvars>>

\* One iteration of the smoothing filter.
SmoothStep ==
    /\ epc = "engine"
    /\ ereq.opts.op = "smooth"
    /\ emesh.it < ereq.args.iterations
    /\ emesh' = [emesh EXCEPT
          !.cur = [@ EXCEPT !.pos = SmoothIteration(ereq.args, emesh.in.pos, @)],
          !.it = @ + 1]
    /\ UNCHANGED <<epc, ereq, eres, wvars, cvars, mvars>>

\* The loop after the ear at position i is clipped: that vertex is removed.
AfterEarKeepsVertex(loop, i) == loop
AfterEar(loop, i) ==
    [k \in 1..Len(loop) - 1 |-> IF k < i THEN loop[k] ELSE loop[k + 1]]

\* FillHole_EarClipping on the first loop still to fill, one ear per step:
\* the ear at loop position i becomes a new triangle <<p, v, n>>, which takes
\* the border edges <<p, v>> and <<v, n>> and leaves <<p, n>> as border; the
\* last three vertices form the closing triangle.  it counts the triangles
\* emitted for the loop in progress.
ClipEar(i) ==
    /\ epc = "engine"
    /\ ereq.opts.op = "fill_holes"
    /\ emesh.cur.todo # <<>>
    /\ LET loop == Head(emesh.cur.todo)
           len == Len(loop)
           p == loop[IF i = 1 THEN len ELSE i - 1]
           v == loop[i]
           n == loop[IF i = len THEN 1 ELSE i + 1]
       IN  /\ loop[1] \notin emesh.in.bad
           /\ i \in 1..len
           /\ len = 3 => i = 1
           /\ emesh' = [emesh EXCEPT
                 !.cur.faces = @ + 1,
                 !.cur.border = IF len = 3
                                THEN @ \ {<<p, v>>, <<v, n>>, <<n, p>>}
                                ELSE (@ \ {<<p, v>>, <<v, n>>}) \cup {<<p, n>>},
                 !.cur.todo = IF len = 3 THEN Tail(@)
                              ELSE <<AfterEar(loop, i)>> \o Tail(@),
                 !.cur.done = IF len = 3
                              THEN Append(@, [hole |-> loop[1] \div 10, tris |-> emesh.it + 1,
                                              filled |-> TRUE])
                              ELSE @,
                 !.it = IF len = 3 THEN 0 ELSE @ + 1]
    /\ UNCHANGED <<epc, ereq, eres, wvars, cvars, mvars>>

\* FillHole_EarClipping on a loop it cannot triangulate.  Either it throws,
\* and the entry point's catch returns 1 with the error text and no output,
\* or it gives up on that loop and the entry point, which does not look at
\* what it returns, goes on to the next.
FillHoleFails(throws) ==
    /\ epc = "engine"
    /\ ereq.opts.op = "fill_holes"
    /\ emesh.cur.todo # <<>>
    /\ Head(emesh.cur.todo)[1] \in emesh.in.bad
    /\ IF throws
       THEN /\ eres' = [eres EXCEPT !.eng = EngineFailed(DegenerateHoleError)]
            /\ epc' = "returned"
            /\ emesh' = emesh
       ELSE /\ emesh' = [emesh EXCEPT
                  !.cur.todo = Tail(@),
                  !.cur.done = Append(@, [hole |-> Head(emesh.cur.todo)[1] \div 10,
                                          tris |-> 0, filled |-> FALSE])]
            /\ UNCHANGED <<epc, eres>>
    /\ UNCHANGED <<ereq, wvars, cvars, mvars>>

\* One edge collapse of the simplification: the cheapest legal candidate is
\* collapsed and takes d faces away.  it counts the collapses.
Collapse(d) ==
    /\ epc = "engine"
    /\ ereq.opts.op = "simplify"
    /\ ~TargetReached(ereq.args, emesh.in.faces, emesh.cur.faces)
    /\ d \in LegalCollapses(ereq.args, emesh.cur)
    /\ emesh' = [emesh EXCEPT !.cur.faces = @ - d, !.it = @ + 1]
    /\ UNCHANGED <<epc, ereq, eres, wvars, cvars, mvars>>

\* The Component Filter runs removeSmallComponents on the mesh.
RemoveSmall ==
    /\ epc = "engine"
    /\ ereq.opts.op = "remove_small_components"
    /\ eres' = [eres EXCEPT
          !.eng = EngineOk(removeSmallComponents(emesh.in, ereq.opts.threshold))]
    /\ epc' = "returned"
    /\ UNCHANGED <<ereq, emesh, wvars, cvars, mvars>>

\* The engine's work is done: it writes the out-parameters and returns 0.
EngineReturn ==
    /\ epc = "engine"
    /\ ereq.opts.op # "remove_small_components"
    /\ ereq.opts.op = "simplify" =>
          \/ TargetReached(ereq.args, emesh.in.faces, emesh.cur.faces)
          \/ LegalCollapses(ereq.args, emesh.cur) = {}
    /\ ereq.opts.op = "smooth" => emesh.it >= ereq.args.iterations
    /\ ereq.opts.op = "fill_holes" => emesh.cur.todo = <<>>
    /\ eres' = [eres EXCEPT !.eng = EngineOk(Output(ereq.opts.op, ereq.args, emesh))]
    /\ epc' = "returned"
    /\ UNCHANGED <<ereq, emesh, wvars, cvars, mvars>>

\* The worker's response reaches the client's message handler.
Reply ==
    /\ epc = "returned"
    /\ ereq.opts.op # "remove_small_components"
    /\ eres' = Settle(ereq.opts.op, eres, WorkerResponse(ereq.opts.op, eres.eng))
    /\ epc' = "settled"
    /\ UNCHANGED <<ereq, emesh, wvars, cvars, mvars>>

\* runHolesCheck of MeshChecksPage after `await client.fillHoles(...)`: the
\* verdict from the triangle counts of the input and of the output, or the
\* catch block's 'error' when the call rejected.
runHolesCheck ==
    /\ epc = "settled"
    /\ ereq.opts.op = "fill_holes"
    /\ LET inputBuf == StlOf(emesh.in)
       IN  eres' = [eres EXCEPT !.shown =
               IF eres.st = "resolved"
               THEN HolesVerdict(triangleCountFromStl(inputBuf),
                                 StlOf(eres.value.output), inputBuf)
               ELSE "error"]
    /\ epc' = "shown"
    /\ UNCHANGED <<ereq, emesh, wvars, cvars, mvars>>

NextEngine ==
    \/ PageRefuses
    \/ Request
    \/ Invoke
    \/ SmoothStep
    \/ \E i \in 1..MaxLoop : ClipEar(i)
    \/ \E throws \in BOOLEAN : FillHoleFails(throws)
    \/ \E d \in {1, 2} : Collapse(d)
    \/ RemoveSmall
    \/ EngineReturn
    \/ Reply
    \/ runHolesCheck

SpecEngine == InitEngine /\ [][NextEngine]_vars

\* ------------------------------------------- properties of engine requests
\* The message of the request has method Taubin and mu <= lambda.
TaubinMuNotAboveLambda ==
    /\ ereq.opts.op = "smooth"
    /\ ereq.opts.method = "taubin"
    /\ OrElse(ereq.opts.mu, 53) <= OrElse(ereq.opts.lambda, 50)

\* C12: a Taubin smoothing request with mu <= lambda never has an iteration
\* run on it, never has its mesh changed and never yields an output; when its
\* promise settles it is rejected with the invalid-parameter error.
C12_TaubinRejected ==
    TaubinMuNotAboveLambda =>
        /\ epc # "engine"
        /\ emesh.it = 0
        /\ emesh.cur \in {<<>>, emesh.in}
        /\ eres.st # "resolved"
        /\ eres.value = <<>>
        /\ epc = "settled" =>
              eres.st = "rejected" /\ Includes(eres.reason, InvalidParameterError)

\* Such a request was made with mu below lambda and has been rejected.
C12_Witness ==
    /\ TaubinMuNotAboveLambda
    /\ ereq.opts.mu # Omitted /\ ereq.opts.lambda # Omitted
    /\ ereq.opts.mu < ereq.opts.lambda
    /\ ereq.opts.iterations > 0
    /\ eres.st = "rejected"

\* C13: a patchFromLandmarks request with fewer than 3 landmarks never
\* resolves and never yields faces or contours; when it is over it has failed
\* with the insufficient-landmarks error.
C13_AtLeastThreeLandmarks ==
    ereq.opts.op = "patch_from_landmarks" /\ ereq.opts.n < 3 =>
        /\ eres.st # "resolved"
        /\ eres.value = <<>>
        /\ epc # "engine"
        /\ epc = "settled" =>
              /\ eres.st \in {"refused", "rejected"}
              /\ Includes(eres.reason, InsufficientLandmarksError)

\* A caller other than the page asked for a patch from 2 landmarks and the
\* promise was rejected.
C13_Witness ==
    /\ ereq.opts.op = "patch_from_landmarks"
    /\ ereq.opts.n = 2 /\ ~ereq.opts.viaPage
    /\ eres.st = "rejected"

BorderOf(border, h) == {e \in border : e[1] \div 10 = h}

\* C14: when fillHoles has resolved for a mesh all of whose holes can be
\* triangulated, findHoles on the output yields no loop (so a second
\* fillHoles has nothing to fill), and the output has the input's faces plus
\* n - 2 for every hole of n vertices.
C14_ClosureIdempotence ==
    ereq.opts.op = "fill_holes" /\ emesh.in.bad = {} /\ eres.st = "resolved" =>
        /\ FindHoles(eres.value.output.border) = <<>>
        /\ eres.value.output.border = {}
        /\ eres.value.output.faces =
              emesh.in.faces + Cardinality(emesh.in.border)
                  - 2 * Len(FindHoles(emesh.in.border))

\* fillHoles resolved for a mesh with as many holes as the bound allows, one
\* of them of the largest size.
C14_Witness ==
    /\ ereq.opts.op = "fill_holes"
    /\ emesh.in.bad = {}
    /\ eres.st = "resolved"
    /\ Len(FindHoles(emesh.in.border)) = MaxHoles
    /\ \E h \in 1..MaxHoles : Cardinality(BorderOf(emesh.in.border, h)) = MaxLoop

\* C16: when a mesh has a hole that cannot be triangulated, the settled
\* request has delivered the partially repaired mesh, in which every other
\* hole is filled and that hole is as it was, and has reported the hole that
\* was left.
C16_BadHoleSkippedAndReported ==
    ereq.opts.op = "fill_holes" /\ emesh.in.bad # {} /\ epc = "settled" =>
        /\ eres.st = "resolved"
        /\ eres.value # <<>>
        /\ \A e \in emesh.in.border :
              e \in eres.value.output.border <=> (10 * (e[1] \div 10) + 1) \in emesh.in.bad
        /\ eres.reason # <<>>

\* C19: fillHole on a loop that can be triangulated: every step emits exactly
\* one triangle; while more than 3 vertices remain the step removes exactly
\* one vertex from the loop, and the step on the last 3 vertices closes it; a
\* closed loop of n vertices has got exactly n - 2 triangles and has no
\* border edge left.
C19_EarClippingFillsLoop ==
    /\ [](ereq.opts.op = "fill_holes" /\ emesh.cur # <<>> =>
            \A k \in DOMAIN emesh.cur.done :
                emesh.cur.done[k].filled =>
                    /\ emesh.cur.done[k].tris =
                          Cardinality(BorderOf(emesh.in.border, emesh.cur.done[k].hole)) - 2
                    /\ BorderOf(emesh.cur.border, emesh.cur.done[k].hole) = {})
    /\ [][(/\ ereq.opts.op = "fill_holes"
           /\ epc = "engine"
           /\ emesh.cur.todo # <<>>
           /\ Head(emesh.cur.todo)[1] \notin emesh.in.bad
           /\ emesh' # emesh)
          => (/\ emesh'.cur.faces = emesh.cur.faces + 1
              /\ IF Len(Head(emesh.cur.todo)) > 3
                 THEN /\ Len(emesh'.cur.todo) = Len(emesh.cur.todo)
                      /\ Len(Head(emesh'.cur.todo)) = Len(Head(emesh.cur.todo)) - 1
                      /\ {Head(emesh'.cur.todo)[k] : k \in DOMAIN Head(emesh'.cur.todo)}
                            \subseteq {Head(emesh.cur.todo)[k] : k \in DOMAIN Head(emesh.cur.todo)}
                      /\ emesh'.it = emesh.it + 1
                 ELSE /\ emesh'.cur.todo = Tail(emesh.cur.todo)
                      /\ emesh'.cur.done[Len(emesh'.cur.done)].filled)]_vars

\* A hole of the largest size and a hole of 3 vertices have both been closed.
C19_Witness ==
    /\ ereq.opts.op = "fill_holes"
    /\ epc = "engine"
    /\ \E k \in DOMAIN emesh.cur.done :
          emesh.cur.done[k].filled /\ emesh.cur.done[k].tris = MaxLoop - 2
    /\ \E k \in DOMAIN emesh.cur.done :
          emesh.cur.done[k].filled /\ emesh.cur.done[k].tris = 1
    /\ emesh.cur.border = {}

\* C18 as stated: a resolved simplification has at most the input's faces
\* and its face count is within one collapse step (2 faces) of the target,
\* the ratio of the input's faces.
C18_WithinOneStepOfTarget ==
    ereq.opts.op = "simplify" /\ eres.st = "resolved" =>
        /\ eres.value.outputFaces <= eres.value.inputFaces
        /\ 100 * eres.value.outputFaces - ereq.opts.targetRatio * emesh.in.faces <= 200
        /\ ereq.opts.targetRatio * emesh.in.faces - 100 * eres.value.outputFaces <= 200

\* C18 as amended: a resolved simplification has at most the input's faces,
\* its face count is less than one collapse step (2 faces) below the target,
\* and it is above the target only when no legal collapse remained.
C18_NeverOvershoots ==
    ereq.opts.op = "simplify" /\ eres.st = "resolved" =>
        /\ eres.value.inputFaces = emesh.in.faces
        /\ eres.value.outputFaces <= eres.value.inputFaces
        /\ ereq.opts.targetRatio * emesh.in.faces - 100 * eres.value.outputFaces < 200
        /\ 100 * eres.value.outputFaces > ereq.opts.targetRatio * emesh.in.faces =>
              LegalCollapses(ereq.args, eres.value.output) = {}

\* A simplification took faces away, stopped more than one collapse step
\* above its target because no legal collapse remained, and resolved.
C18_Witness ==
    /\ ereq.opts.op = "simplify"
    /\ eres.st = "resolved"
    /\ eres.value.outputFaces < eres.value.inputFaces
    /\ 100 * eres.value.outputFaces - ereq.opts.targetRatio * emesh.in.faces > 200

\* The components whose area is the largest.
OfMaxArea(areas) == {i \in DOMAIN areas : \A j \in DOMAIN areas : areas[j] <= areas[i]}

\* C20 as stated: removeSmallComponents(t) keeps the component of maximum
\* area and exactly the others with area / maxArea >= t; with t = 0 nothing
\* is removed; with t >= 1 only the largest component remains, also when
\* another component has the largest area too.
C20_OnlyLargestFromOne ==
    ereq.opts.op = "remove_small_components" /\ epc = "returned" =>
        LET r == eres.eng.out
            t == ereq.opts.threshold
        IN  /\ r.largest \in OfMaxArea(emesh.in)
            /\ r.kept = {r.largest} \cup
                  {i \in DOMAIN emesh.in : 100 * emesh.in[i] >= t * emesh.in[r.largest]}
            /\ t = 0 => r.kept = DOMAIN emesh.in
            /\ t >= 100 => r.kept = {r.largest}

\* C20 as amended: removeSmallComponents(t) keeps the component of maximum
\* area and exactly the others with area / maxArea >= t; with t = 0 nothing
\* is removed; with t >= 1 only components of the largest area remain: all
\* of them with t = 1, only the one identified as the largest with t > 1.
C20_RemovesBelowThreshold ==
    ereq.opts.op = "remove_small_components" /\ epc = "returned" =>
        LET r == eres.eng.out
            t == ereq.opts.threshold
        IN  /\ r.largest \in OfMaxArea(emesh.in)
            /\ r.kept = {r.largest} \cup
                  {i \in DOMAIN emesh.in : 100 * emesh.in[i] >= t * emesh.in[r.largest]}
            /\ r.removed = Len(emesh.in) - Cardinality(r.kept)
            /\ t = 0 => r.kept = DOMAIN emesh.in
            /\ t >= 100 => r.kept \subseteq OfMaxArea(emesh.in)
            /\ t = 100 => r.kept = OfMaxArea(emesh.in)
            /\ t > 100 => r.kept = {r.largest}

\* With threshold 1, two components of the largest area were kept and a
\* smaller one was removed.
C20_Witness ==
    /\ ereq.opts.op = "remove_small_components"
    /\ epc = "returned"
    /\ ereq.opts.threshold = 100
    /\ Cardinality(eres.eng.out.kept) = 2
    /\ eres.eng.out.removed = 1

\* The faces that pass the gates of a patch request: the centroid within
\* radius of center, and, when the angle is limited, the normal within limit
\* degrees of the seed's normal.
PassesGates(mesh, seed, center, radius, limited, limit) ==
    LET abs(x) == IF x < 0 THEN 0 - x ELSE x
    IN  {g \in DOMAIN mesh.cen :
            /\ abs(mesh.cen[g] - center) <= radius
            /\ limited => abs(mesh.nrm[g] - mesh.nrm[seed]) <= limit}

\* The faces joined to the seed by a chain of faces, each sharing an edge with
\* the one before it and each after the seed taken from the set G: the
\* smallest set that holds the seed and every face of G that shares an edge
\* with one of its members.
ReachedThrough(mesh, seed, G) ==
    LET closed == {S \in SUBSET DOMAIN mesh.cen :
                      /\ seed \in S
                      /\ \A f \in S : \A g \in G : {f, g} \in mesh.adj => g \in S}
    IN  {f \in DOMAIN mesh.cen : \A S \in closed : f \in S}

\* C21: selectPatch returns exactly the faces reached from the seed face
\* across shared edges through faces that pass the gates (centroid within
\* radius of center, normal angle to the seed normal <= maxNormalAngle); the
\* page sends -1 when the angle limit is switched off, and with
\* maxNormalAngle < 0 only the radius gate applies.
C21_PatchIsGatedRegion ==
    (ereq.opts.op = "select_patch" /\ epc = "settled") =>
        LET a == ereq.args
            limited == a.maxNormalAngleDeg >= 0
        IN  /\ eres.st = "resolved"
            /\ ~ereq.opts.useAngleLimit => a.maxNormalAngleDeg = -1
            /\ ereq.opts.useAngleLimit => a.maxNormalAngleDeg = ereq.opts.maxAngle
            /\ eres.value.faceIndices =
                  ReachedThrough(emesh.in, a.seedFaceIndex,
                      PassesGates(emesh.in, a.seedFaceIndex, a.center, a.radius,
                                  limited, a.maxNormalAngleDeg))
            /\ eres.value.numFaces = Cardinality(eres.value.faceIndices)

\* A patch grown with the angle limit switched off: it holds a face whose
\* normal is beyond the slider's angle, and leaves out a face that passes the
\* radius gate but is cut off from the seed by faces that do not.
C21_Witness ==
    /\ ereq.opts.op = "select_patch"
    /\ epc = "settled"
    /\ ~ereq.opts.useAngleLimit
    /\ LET a == ereq.args
           patch == eres.value.faceIndices
       IN  /\ \E g \in patch :
                  g \notin PassesGates(emesh.in, a.seedFaceIndex, a.center, a.radius,
                                       TRUE, ereq.opts.maxAngle)
           /\ \E g \in PassesGates(emesh.in, a.seedFaceIndex, a.center, a.radius,
                                    FALSE, 0) : g \notin patch
           /\ Cardinality(patch) >= 2

\* C32: the holes check of Mesh Checks shows 'pass' only when the input mesh
\* has no boundary loops, and shows 'fail' whenever fill-holes found holes:
\* the comparison of the output's triangle count with the input's tells
\* whether holes were found.
C32_HolesVerdictDecides ==
    (ereq.opts.op = "fill_holes" /\ epc = "shown") =>
        /\ eres.shown = "pass" => FindHoles(emesh.in.border) = <<>>
        /\ (eres.st = "resolved" /\ FindHoles(emesh.in.border) # <<>>)
              => eres.shown = "fail"

====
